---- MODULE Spec2Model ----
(***************************************************************************)
(* Job lifecycle of the backend: the Job Store rows (job_crud.py,          *)
(* models.py), the dispatch task process_job and the completion callback   *)
(* complete_job (main.py), the owner's update_job and delete_job, the      *)
(* results endpoint get_job_results with its parser                        *)
(* (parsers/job_results.py), and the per-job WebSocket hub                 *)
(* (websocket_manager.py) with the live update endpoint.                   *)
(*                                                                         *)
(* Scheduling.  Coroutines (process_job, broadcast, job_updates_ws,        *)
(* create_job) run on one event loop: between two awaits a coroutine is    *)
(* not interleaved with another coroutine.  An await of a socket write     *)
(* performs the write and then may suspend.  The hub lock is only ever     *)
(* held over code without awaits, so acquiring it never suspends.  The     *)
(* plain `def` endpoints (complete_job, update_job, delete_job,            *)
(* get_job_results) run in worker threads, each with a session of its own. *)
(* Every database round trip (query, commit, refresh) is a step of its     *)
(* own: a commit is one transaction and no row is locked across two of     *)
(* them, so a worker thread commits between two round trips of another     *)
(* thread and between two round trips the event loop makes without         *)
(* awaiting (create_job, process_job).  Round trips are merged into one    *)
(* step only where the second re-reads nothing the first did not read.     *)
(* A call to the Blob Store and a reading of the clock by a worker thread  *)
(* are steps of their own as well: other threads run between them.         *)
(* The parser is also run on its own, on bounded sheets.                   *)
(*                                                                         *)
(* Optional values: None is <<>>, a present value x is <<x>>.              *)
(* Text that the code slices or lower-cases is a sequence of characters.   *)
(***************************************************************************)
EXTENDS Integers, Sequences, FiniteSets, TLC

\* ---------------------------------------------------------------- bounds
MaxJobs == 1
MaxSockets == 3
MaxCallbacks == 2
MaxUpdates == 1
MaxRequests == 2
MaxResults == 2
MaxDeletes == 1
MaxThreads == 2
MaxChannels == 1
MaxPair == 2

Jobs == 1..MaxJobs
Sockets == 1..MaxSockets

None == <<>>
Some(x) == <<x>>
IsNone(o) == o = <<>>
Val(o) == o[1]

\* ------------------------------------------------------- text and tokens
LowerChar(c) ==
  CASE c = "B" -> "b"
    [] c = "E" -> "e"
    [] c = "A" -> "a"
    [] c = "R" -> "r"
    [] c = "S" -> "s"
    [] OTHER -> c

StrLower(s) == [i \in 1..Len(s) |-> LowerChar(s[i])]

StartsWith(s, p) == Len(s) >= Len(p) /\ SubSeq(s, 1, Len(p)) = p

\* token[7:]
DropSeven(s) == IF Len(s) <= 7 THEN <<>> ELSE SubSeq(s, 8, Len(s))

BearerLower == <<"b", "e", "a", "r", "e", "r", " ">>
BearerTitle == <<"B", "e", "a", "r", "e", "r", " ">>
BearerUpper == <<"B", "E", "A", "R", "E", "R", " ">>
BearerNoSpace == <<"B", "e", "a", "r", "e", "r">>
Secret == <<"s", "3", "c">>
SecretUpper == <<"S", "3", "c">>
WrongToken == <<"b", "a", "d">>

\* Values of the environment variable ML_SERVICE_TOKEN: unset, or set.
TokenValues == {None, Some(Secret)}

\* Values of the Authorization header of a completion callback.
Headers ==
  { None, Some(<<>>), Some(Secret), Some(SecretUpper), Some(WrongToken),
    Some(BearerTitle \o Secret), Some(BearerUpper \o Secret),
    Some(BearerTitle \o WrongToken), Some(BearerNoSpace \o Secret),
    Some(BearerTitle) }

\* A falsy Optional[str]: None or the empty string.
Falsy(o) == IsNone(o) \/ Val(o) = <<>>

\* A check that wants a header but does not compare its token.
ValidateSkipsCompare(expected, auth_header) ==
  \/ Falsy(expected)
  \/ ~Falsy(auth_header)

\* _validate_ml_service_token: TRUE when it returns, FALSE when it raises 401.
_validate_ml_service_token(expected, auth_header) ==
  \/ Falsy(expected)
  \/ /\ ~Falsy(auth_header)
     /\ LET token == IF StartsWith(StrLower(Val(auth_header)), BearerLower)
                     THEN DropSeven(Val(auth_header))
                     ELSE Val(auth_header)
        IN token = Val(expected)


\* ------------------------------------------------------------- job store
\* Opaque text (names, object keys) is a TLA+ string; "" is the empty string.
FalsyStr(o) == IsNone(o) \/ Val(o) = ""

InputObject == "jobs/in.bin"
InputName == "in.bin"
OutputObject == "jobs/out.xlsx"
OutputName == "out.xlsx"

\* models.Job defaults and job_crud.create_job
NewJob ==
  [ status |-> "pending", completed_at |-> None, file_path |-> None,
    file_name |-> None, file_size |-> None, file_type |-> "single",
    zip_contents |-> None, results_payload |-> None,
    results_parsed_at |-> None ]

\* job_crud.update_job_file_info, on the row
update_job_file_info(row, file_name, file_size, file_path, file_type, zip_contents) ==
  [ row EXCEPT !.file_name = Some(file_name),
               !.file_size = Some(file_size),
               !.file_path = Some(file_path),
               !.file_type = file_type,
               !.zip_contents = IF ~IsNone(zip_contents) /\ Val(zip_contents) # <<>>
                                THEN zip_contents ELSE @ ]

\* job_crud.update_job_status, on the row
update_job_status(row, status) ==
  [ row EXCEPT !.status = status,
               !.completed_at = IF status \in {"completed", "succeeded", "success"}
                                THEN Some("now") ELSE @ ]

\* SQL NULL in the status column (nullable, models.py:24)
NullStatus == "NULL"

\* Session.commit of a loaded object after assignments: the UPDATE carries
\* the columns whose assigned value differs from the loaded one; the other
\* columns of the stored row stay as the store has them.
Flush(stored, loaded, assigned) ==
  [f \in DOMAIN stored |->
     IF assigned[f] # loaded[f] THEN assigned[f] ELSE stored[f]]

\* _job_payload: JobResponse.model_validate raises on a row without status
\* (None); otherwise the message, of which the status is kept.
_job_payload(row) ==
  IF row.status = NullStatus THEN None ELSE Some(row.status)

\* The identifiers a client may present for job j: the canonical text of its
\* uuid, or the decimal text of its numeric id.
KeyForms == {"uuid", "num"}
Keys == KeyForms \X Jobs
UuidKey(j) == <<"uuid", j>>
NumKey(j) == <<"num", j>>

\* job_crud.get_job_by_uuid: None unless the text parses as a uuid of a row.
get_job_by_uuid(db, id) ==
  IF id[1] = "uuid" /\ id[2] \in DOMAIN db THEN Some(id[2]) ELSE None

\* job_crud.get_job
get_job(db, n) == IF n \in DOMAIN db THEN Some(n) ELSE None

\* str.isdigit() of the identifier
IsDigit(id) == id[1] = "num"

\* The lookup shared by process_job, complete_job and job_updates_ws:
\* by uuid, then by numeric id when the text is all digits.
LookupJob(db, id) ==
  LET byUuid == get_job_by_uuid(db, id)
  IN IF IsNone(byUuid) /\ IsDigit(id) THEN get_job(db, id[2]) ELSE byUuid

\* _job_identifier: every row has a uuid (job_crud.create_job sets it).
_job_identifier(j) == UuidKey(j)

\* str.lower() of a status text, on the status texts that occur
StatusLower(status) ==
  CASE status = "Completed" -> "completed"
    [] status = "SUCCESS" -> "success"
    [] OTHER -> status

\* The status values the hub treats as terminal (status.lower() in {...}).
Terminal(status) ==
  StatusLower(status) \in {"succeeded", "success", "failed", "completed"}

\* ------------------------------------------------- completion callback body
CbStatuses == {"succeeded", "failed"}
\* The optional fields: all left out, all present, or empty text (falsy).
PayloadFields ==
  { [output_object |-> None, file_size |-> None, file_name |-> None],
    [output_object |-> Some(OutputObject), file_size |-> Some(4096),
     file_name |-> Some(OutputName)],
    [output_object |-> Some(""), file_size |-> None, file_name |-> Some("")] }
Payloads ==
  { [status |-> s] @@ f : s \in CbStatuses, f \in PayloadFields }

\* A completion that adds the reported size to the stored one.
ApplyCompletionAccumulating(row, payload) ==
  [ row EXCEPT !.status = payload.status,
               !.file_path = IF ~FalsyStr(payload.output_object)
                             THEN payload.output_object ELSE @,
               !.file_size = IF ~IsNone(payload.file_size)
                             THEN (IF IsNone(@) THEN payload.file_size
                                   ELSE Some(Val(@) + Val(payload.file_size)))
                             ELSE @,
               !.file_name = IF ~FalsyStr(payload.file_name)
                             THEN payload.file_name ELSE @ ]

\* complete_job, lines 954-960, on the row
ApplyCompletion(row, payload) ==
  [ row EXCEPT !.status = payload.status,
               !.file_path = IF ~FalsyStr(payload.output_object)
                             THEN payload.output_object ELSE @,
               !.file_size = IF ~IsNone(payload.file_size)
                             THEN payload.file_size ELSE @,
               !.file_name = IF ~FalsyStr(payload.file_name)
                             THEN payload.file_name ELSE @ ]

\* The owner's JobUpdate bodies (exclude_unset): status left out, set to a
\* text, or set to null.
OwnerStatuses ==
  {"pending", "processing", "succeeded", "completed", "Completed", NullStatus}
Updates == {None} \cup {Some(s) : s \in OwnerStatuses}

\* job_crud.update_job, on the row: setattr of every field that was sent
update_job(row, upd) ==
  IF IsNone(upd) THEN row ELSE [row EXCEPT !.status = Val(upd)]


\* ------------------------------------------------------------------ state
VARIABLES
  ML_SERVICE_TOKEN, \* the configured shared secret (main.py:94)
  jobs,             \* the jobs table: numeric id -> row
  nextId,           \* the next numeric id the table assigns
  cj,               \* the create_job request the event loop is running, if any
  pj,               \* per job: where the process_job task is
  pjRow,            \* per job: the row as the session of process_job holds it
  connections,      \* JobWebSocketManager._connections: key -> set of sockets
  ws,               \* per socket: the job_updates_ws handler and its peer
  bcasts,           \* the broadcast coroutines suspended in a send or close
  bg,               \* broadcasts scheduled as background tasks, not yet run
  calls,            \* complete_job, update_job and delete_job requests in a worker thread
  nCb,              \* completion callbacks received so far
  nUpd,             \* owner updates received so far
  cbLog,            \* per job: the callback bodies committed, in order
  cbAns,            \* per callback: secret presented, response (0: none yet)
  updLast,          \* the latest response to an owner update
  delLast,          \* the latest response to a delete request
  inferCalls,       \* per job: inference requests issued
  failSubs,         \* per job: sockets subscribed when the local failure committed
  lock,             \* the hub's asyncio.Lock: None, or the coroutine holding it
  blobs,            \* the Blob Store: object key -> the bytes create_job stored
  creation,         \* per numeric id: what its creation request carried and got
  nRes,             \* get_job_results requests received so far
  now,              \* the clock: readings of datetime.utcnow() taken so far
  grCalls,          \* get_job_results requests in a worker thread
  grLast,           \* the latest get_job_results response
  firstFresh,       \* per job: the results of the first response tagged fresh
  nDel,             \* delete requests received so far
  parse             \* the sheet handed to the results parser and what it gave

vars ==
  << ML_SERVICE_TOKEN, jobs, nextId, cj, pj, pjRow, connections, ws, bcasts,
     bg, calls, nCb, nUpd, cbLog, cbAns, updLast, delLast, inferCalls,
     failSubs, lock, blobs, creation, nRes, now, grCalls, grLast, firstFresh,
     nDel, parse >>

\* The variables of the hub and its channels
hubVars == << connections, ws, bcasts, lock >>

\* The variables of the dispatch task
taskVars == << pj, pjRow, inferCalls, failSubs >>

\* The variables of the worker-thread requests and their responses
callVars ==
  << calls, nCb, nUpd, nDel, cbLog, cbAns, updLast, delLast >>

\* The variables of the results requests
resultVars == << nRes, now, grCalls, grLast, firstFresh >>

\* External requests received so far: callbacks, owner updates, results
\* requests, deletions, channels opened, and the uploads that are no workbook.
OtherUploads ==
  Cardinality({j \in Jobs : ~IsNone(creation[j])
                              /\ Val(creation[j]).upload \in {"single", "emptyzip"}})
    + (IF ~IsNone(cj) /\ Val(cj).upload \in {"single", "emptyzip"} THEN 1 ELSE 0)
Requests ==
  nCb + nUpd + nRes + nDel + OtherUploads
    + Cardinality({w \in Sockets : ws[w].pc # "idle"})

\* The requests that hold a worker thread: the plain `def` endpoints run in
\* the thread pool, and a request received while MaxThreads of them are
\* between two round trips waits for a thread.
Threads ==
  Cardinality(calls.cb) + Cardinality(calls.upd) + Cardinality(calls.del)
    + Cardinality(grCalls)

\* The positions of process_job inside a run of synchronous code: the event
\* loop is not given back between the round trips of update_job_status
\* (main.py:143-147) nor between those of the except clause (155-162).
PjBusy == {"looked", "found", "committed", "raised", "caught", "fcommitted"}

\* The event loop is free: it is not inside create_job, which never awaits,
\* nor inside a synchronous run of process_job.  Only then does another
\* coroutine run; worker threads run at any time.
LoopFree ==
  /\ IsNone(cj)
  /\ \A j \in Jobs : pj[j] \notin PjBusy

\* dict helpers
Get(d, k) == IF k \in DOMAIN d THEN d[k] ELSE {}
Put(d, k, v) == [x \in DOMAIN d \cup {k} |-> IF x = k THEN v ELSE d[x]]
Pop(d, k) == [x \in DOMAIN d \ {k} |-> d[x]]

\* list(set): the set's elements in some order
Orders(S) ==
  { s \in [1..Cardinality(S) -> S] : \A a, b \in 1..Cardinality(S) : s[a] = s[b] => a = b }

\* The state after construction, the parser's sheet apart
Fresh ==
  /\ ML_SERVICE_TOKEN \in TokenValues
  /\ cj = None
  /\ pj = [j \in Jobs |-> "none"]
  /\ pjRow = [j \in Jobs |-> None]
  /\ connections = <<>>
  /\ ws = [w \in Sockets |->
             [pc |-> "idle", key |-> UuidKey(1), srvClosed |-> FALSE,
              peerClosed |-> FALSE, inbox |-> <<>>]]
  /\ bcasts = {}
  /\ bg = {}
  /\ calls = [cb |-> {}, upd |-> {}, del |-> {}]
  /\ nCb = 0
  /\ nUpd = 0
  /\ cbLog = [j \in Jobs |-> <<>>]
  /\ cbAns = <<>>
  /\ updLast = None
  /\ delLast = None
  /\ inferCalls = [j \in Jobs |-> 0]
  /\ failSubs = [j \in Jobs |-> {}]
  /\ lock = None
  /\ creation = [j \in Jobs |-> None]
  /\ nRes = 0
  /\ now = 0
  /\ grCalls = {}
  /\ grLast = None
  /\ firstFresh = [j \in Jobs |-> None]
  /\ nDel = 0

\* The state after construction on an empty table and an empty bucket
Start ==
  /\ Fresh
  /\ jobs = <<>>
  /\ nextId = 1
  /\ blobs = <<>>

\* The state after construction: the parser idle.
Idle == Start /\ parse = None

\* A shared secret is configured.
Init == Idle /\ ~Falsy(ML_SERVICE_TOKEN)

\* ---------------------------------------------------------------- the hub
\* websocket.send_json succeeds on a socket that is accepted, not closed by
\* the server and whose peer is still there; otherwise it raises.
CanSend(wsf, w) ==
  wsf[w].pc = "open" /\ ~wsf[w].srvClosed /\ ~wsf[w].peerClosed

\* A loop body that sends and never closes.
BroadcastStepNoClose(b, wsf) ==
  LET w == b.conns[b.i]
  IN IF CanSend(wsf, w)
     THEN [ b |-> [b EXCEPT !.i = @ + 1],
            ws |-> [wsf EXCEPT ![w].inbox = Append(@, b.status)] ]
     ELSE [ b |-> [b EXCEPT !.i = @ + 1, !.disc = @ \cup {w}], ws |-> wsf ]

\* A loop body whose send goes to every connected socket, listed or not.
BroadcastStepSendsToAll(b, wsf) ==
  LET w == b.conns[b.i]
  IN IF b.phase = "send"
     THEN IF CanSend(wsf, w)
          THEN [ b |-> IF Terminal(b.status)
                       THEN [b EXCEPT !.phase = "close"]
                       ELSE [b EXCEPT !.i = @ + 1],
                 ws |-> [v \in DOMAIN wsf |->
                           IF CanSend(wsf, v)
                           THEN [wsf[v] EXCEPT !.inbox = Append(@, b.status)]
                           ELSE wsf[v]] ]
          ELSE [ b |-> [b EXCEPT !.i = @ + 1, !.disc = @ \cup {w}],
                 ws |-> wsf ]
     ELSE [ b |-> [b EXCEPT !.i = @ + 1, !.phase = "send", !.disc = @ \cup {w}],
            ws |-> [wsf EXCEPT ![w].srvClosed = TRUE] ]

\* JobWebSocketManager.broadcast, the loop body up to its next await: one
\* send_json or one close on connection b.conns[b.i].
\* Gives the coroutine and the sockets afterwards.
BroadcastStep(b, wsf) ==
  LET w == b.conns[b.i]
  IN IF b.phase = "send"
     THEN IF CanSend(wsf, w)
          THEN [ b |-> IF Terminal(b.status)
                       THEN [b EXCEPT !.phase = "close"]
                       ELSE [b EXCEPT !.i = @ + 1],
                 ws |-> [wsf EXCEPT ![w].inbox = Append(@, b.status)] ]
          ELSE [ b |-> [b EXCEPT !.i = @ + 1, !.disc = @ \cup {w}],
                 ws |-> wsf ]
     ELSE [ b |-> [b EXCEPT !.i = @ + 1, !.phase = "send", !.disc = @ \cup {w}],
            ws |-> [wsf EXCEPT ![w].srvClosed = TRUE] ]

\* The coroutine has something left to do that others can see: a send or a
\* close, or the removal of dead connections.  Otherwise it has returned.
Suspended(b) == b.i <= Len(b.conns) \/ b.disc # {}

\* A broadcast that keeps the lock while its sends are outstanding.
BroadcastBeginHoldsLock(id, key, status, order, wsf) ==
  LET b0 == [ id |-> id, key |-> key, status |-> status, conns |-> order,
              i |-> 1, phase |-> "send", disc |-> {} ]
      r == BroadcastStep(b0, wsf)
  IN IF Len(order) = 0
     THEN [ started |-> FALSE, b |-> b0, ws |-> wsf, lock |-> None ]
     ELSE [ started |-> Suspended(r.b), b |-> r.b, ws |-> r.ws,
            lock |-> IF Suspended(r.b) THEN Some(id) ELSE None ]

\* JobWebSocketManager.broadcast, lines 31-35 and the first send: the snapshot
\* `order` of the key's connections under the lock, then the first send_json
\* with the lock released (`async with` ends on line 33).
\* No coroutine is left suspended when nobody is subscribed.
BroadcastBegin(id, key, status, order, wsf) ==
  LET b0 == [ id |-> id, key |-> key, status |-> status, conns |-> order,
              i |-> 1, phase |-> "send", disc |-> {} ]
      r == BroadcastStep(b0, wsf)
  IN IF Len(order) = 0
     THEN [ started |-> FALSE, b |-> b0, ws |-> wsf, lock |-> None ]
     ELSE [ started |-> Suspended(r.b), b |-> r.b, ws |-> r.ws, lock |-> None ]

\* A broadcast that drops the key's whole set when a connection is dead.
BroadcastCleanupDropsKey(conn, key, disc) ==
  IF disc = {} \/ Get(conn, key) = {} THEN conn ELSE Pop(conn, key)

\* A broadcast that removes nothing when it returns.
BroadcastCleanupKeeps(conn, key, disc) == conn

\* JobWebSocketManager.broadcast, lines 54-62: the removal of the dead
\* connections under the lock.
BroadcastCleanup(conn, key, disc) ==
  IF disc = {} \/ Get(conn, key) = {}
  THEN conn
  ELSE IF Get(conn, key) \ disc = {}
       THEN Pop(conn, key)
       ELSE Put(conn, key, Get(conn, key) \ disc)

\* JobWebSocketManager.connect, lines 19-20
HubConnect(conn, key, w) == Put(conn, key, Get(conn, key) \cup {w})

\* A disconnect that leaves the key's emptied set in the map.
HubDisconnectKeepsKey(conn, key, w) ==
  IF w \in Get(conn, key) THEN Put(conn, key, Get(conn, key) \ {w}) ELSE conn

\* JobWebSocketManager.disconnect
HubDisconnect(conn, key, w) ==
  IF w \in Get(conn, key)
  THEN IF Get(conn, key) \ {w} = {}
       THEN Pop(conn, key)
       ELSE Put(conn, key, Get(conn, key) \ {w})
  ELSE conn

\* A broadcast coroutine resumes from its await and runs to the next one.
BcStep(b) ==
  /\ LoopFree
  /\ b \in bcasts
  /\ b.i <= Len(b.conns)
  /\ LET r == BroadcastStep(b, ws)
     IN /\ bcasts' = (bcasts \ {b}) \cup (IF Suspended(r.b) THEN {r.b} ELSE {})
        /\ ws' = r.ws
        /\ pj' = IF b.id[1] = "pj" /\ ~Suspended(r.b)
                 THEN [pj EXCEPT ![b.id[2]] = IF @ = "bcast" THEN "ready" ELSE "failed"]
                 ELSE pj
  /\ UNCHANGED << ML_SERVICE_TOKEN, jobs, nextId, cj, pjRow, connections, bg,
                  callVars, inferCalls, failSubs, lock, blobs, creation,
                  resultVars, parse >>

\* A broadcast coroutine resumes after its last await, removes the dead
\* connections and returns.  process_job awaits its own broadcast: it goes on
\* to the inference call, or returns, when that broadcast returns.
BcCleanup(b) ==
  /\ LoopFree
  /\ b \in bcasts
  /\ b.i > Len(b.conns)
  /\ bcasts' = bcasts \ {b}
  /\ lock \in {None, Some(b.id)}
  /\ lock' = None
  /\ connections' = BroadcastCleanup(connections, b.key, b.disc)
  /\ pj' = IF b.id[1] = "pj"
           THEN [pj EXCEPT ![b.id[2]] = IF @ = "bcast" THEN "ready" ELSE "failed"]
           ELSE pj
  /\ UNCHANGED << ML_SERVICE_TOKEN, jobs, nextId, cj, pjRow, ws, bg,
                  callVars, inferCalls, failSubs, blobs, creation,
                  resultVars, parse >>

\* A background task of a finished request runs job_ws_manager.broadcast with
\* the payload built when it was scheduled (schedule_job_broadcast).
BgStart(t) ==
  /\ LoopFree
  /\ t \in bg
  /\ IsNone(lock)
  /\ bg' = bg \ {t}
  /\ \E order \in Orders(Get(connections, t.key)) :
       LET r == BroadcastBegin(t.id, t.key, t.status, order, ws)
       IN /\ bcasts' = IF r.started THEN bcasts \cup {r.b} ELSE bcasts
          /\ ws' = r.ws
          /\ lock' = r.lock
  /\ UNCHANGED << ML_SERVICE_TOKEN, jobs, nextId, cj, taskVars, connections,
                  callVars, blobs, creation, resultVars, parse >>

\* schedule_job_broadcast: the task added for row j as it is now, named
\* after the request that adds it
Scheduled(id, j, row) ==
  [ id |-> id, key |-> _job_identifier(j), status |-> row.status ]

\* ------------------------------------------------- the live update channel
\* job_updates_ws, line 904, and JobWebSocketManager.connect, line 17: the
\* handshake is accepted and the handler is suspended in that await, not yet
\* registered.  Sockets are taken in order: they are interchangeable.
WsAccept(w, key) ==
  /\ LoopFree
  /\ ws[w].pc = "idle"
  /\ \A v \in Sockets : v < w => ws[v].pc # "idle"
  /\ ws' = [ws EXCEPT ![w].pc = "accepted", ![w].key = key]
  /\ UNCHANGED << ML_SERVICE_TOKEN, jobs, nextId, cj, taskVars, connections,
                  bcasts, bg, callVars, lock, blobs, creation, resultVars,
                  parse >>

\* A channel is opened, within the requests and the channels explored.
WsConnect(w, key) ==
  /\ Requests < MaxRequests
  /\ Cardinality({v \in Sockets : ws[v].pc # "idle"}) < MaxChannels
  /\ WsAccept(w, key)

\* job_updates_ws resumes from accept: the registration under the lock
\* (websocket_manager.py:18-19), the lookup and the first snapshot
\* (main.py:906-914), with no await in between.  When the row has no status
\* (_job_payload raises) or the peer has left (send_json raises) the finally
\* clause unregisters the socket and the handler ends with the error, nothing
\* sent.
WsOpen(w) ==
  /\ LoopFree
  /\ ws[w].pc = "accepted"
  /\ IsNone(lock)
  /\ LET key == ws[w].key
         found == LookupJob(jobs, key)
         message == IF IsNone(found) THEN Some("job.not_found")
                    ELSE _job_payload(jobs[Val(found)])
         registered == HubConnect(connections, key, w)
     IN IF IsNone(message) \/ ws[w].peerClosed
        THEN /\ ws' = [ws EXCEPT ![w].pc = "gone", ![w].peerClosed = TRUE,
                                 ![w].srvClosed = TRUE]
             /\ connections' = HubDisconnect(registered, key, w)
        ELSE /\ ws' = [ws EXCEPT ![w].pc = "open",
                                 ![w].inbox = Append(@, Val(message))]
             /\ connections' = registered
  /\ UNCHANGED << ML_SERVICE_TOKEN, jobs, nextId, cj, taskVars, bcasts, bg,
                  callVars, lock, blobs, creation, resultVars, parse >>

\* The peer closes its end, of a channel that is accepted or open.  The
\* server learns of it at its next operation on the socket, so the close is
\* taken between two runs of the event loop.
PeerClose(w) ==
  /\ LoopFree
  /\ ws[w].pc \in {"accepted", "open"}
  /\ ~ws[w].peerClosed
  /\ ws' = [ws EXCEPT ![w].peerClosed = TRUE]
  /\ UNCHANGED << ML_SERVICE_TOKEN, jobs, nextId, cj, taskVars, connections,
                  bcasts, bg, callVars, lock, blobs, creation, resultVars,
                  parse >>

\* job_updates_ws, lines 916-923: receive_text raises WebSocketDisconnect once
\* either end has closed, and the finally clause calls disconnect.  The
\* handler returns and the connection is then closed at both ends.
WsDisconnect(w) ==
  /\ LoopFree
  /\ ws[w].pc = "open"
  /\ IsNone(lock)
  /\ ws[w].peerClosed \/ ws[w].srvClosed
  /\ ws' = [ws EXCEPT ![w].pc = "gone", ![w].peerClosed = TRUE,
                      ![w].srvClosed = TRUE]
  /\ connections' = HubDisconnect(connections, ws[w].key, w)
  /\ UNCHANGED << ML_SERVICE_TOKEN, jobs, nextId, cj, taskVars, bcasts, bg,
                  callVars, lock, blobs, creation, resultVars, parse >>

\* --------------------------------------------------------------- create_job
\* What a creation request carries: no file, a plain file, an archive that
\* passes zip_utils.validate_zip_stream (with one entry, or with none), or an
\* archive that fails it.
Uploads == {"none", "single", "zip", "emptyzip", "badzip"}

\* The bytes of an upload.  A workbook (.xlsx) is a ZIP container: the
\* accepted archive with one entry stands for a workbook with two data rows,
\* the other uploads are no workbook.
InputBytes(upload) ==
  IF upload = "zip"
  THEN [ workbook |-> TRUE, rows |-> <<"in-1", "in-2">> ]
  ELSE [ workbook |-> FALSE, rows |-> <<>> ]

\* The bytes the inference service stores under the output key
OutputBytes == [ workbook |-> TRUE, rows |-> <<"out-1", "out-2">> ]

\* zip_utils.get_zip_contents_stream of the accepted archive
ZipListing(upload) ==
  IF upload = "emptyzip" THEN <<>> ELSE <<"xl/worksheets/sheet1.xml">>

\* create_job, main.py:596-637, for a request that carries a file: the
\* archive check (400) and the upload (minio_utils.upload_fileobj_to_minio
\* gives (False, "") on any error: 500).  `put` tells what became of the Blob
\* Store write; the row is deleted (job_crud.delete_job) unless `keep`.
create_job_upload(upload, uploadOk) ==
  IF upload = "badzip"
  THEN [ code |-> 400, put |-> "none", keep |-> FALSE ]
  ELSE IF ~uploadOk
  THEN [ code |-> 500, put |-> "failed", keep |-> FALSE ]
  ELSE [ code |-> 200, put |-> "ok", keep |-> TRUE ]

\* The file fields create_job hands to job_crud.update_job_file_info
FileInfo(row, upload) ==
  update_job_file_info(row, InputName, 1024, InputObject,
                       IF upload = "single" THEN "single" ELSE "zip",
                       IF upload = "single" THEN None
                       ELSE Some(ZipListing(upload)))

\* create_job returns or raises: the response is recorded and the event loop
\* is given back.
CjEnd(c, put, code) ==
  /\ creation' = [creation EXCEPT ![c.j] =
                    Some([upload |-> c.upload, put |-> put, code |-> code])]
  /\ cj' = None

\* create_job goes on to its next database round trip.
CjGoes(c, pc, loaded, put) ==
  /\ cj' = Some([c EXCEPT !.pc = pc, !.loaded = loaded, !.put = put])
  /\ UNCHANGED creation

\* create_job, main.py:572, and job_crud.create_job up to its commit: the row
\* is inserted with the defaults.  From this commit on the row is there for
\* every other request; create_job does not await, so the event loop runs
\* nothing else until it returns.
CJ_Insert(upload) ==
  /\ LoopFree
  /\ nextId <= MaxJobs
  /\ jobs' = Put(jobs, nextId, NewJob)
  /\ nextId' = nextId + 1
  /\ cj' = Some([ j |-> nextId, upload |-> upload, pc |-> "inserted",
                  loaded |-> NewJob, put |-> "none" ])
  /\ UNCHANGED << ML_SERVICE_TOKEN, taskVars, hubVars, bg, callVars, blobs,
                  creation, resultVars, parse >>

\* job_crud.create_job, line 67: the refresh, which raises when the row has
\* been deleted (500).  Without a file (main.py:577, 643-646) the snapshot of
\* the row as re-read is scheduled and the request is answered; building the
\* snapshot raises when the row has no status (500).
CJ_Refresh ==
  /\ ~IsNone(cj)
  /\ Val(cj).pc = "inserted"
  /\ LET c == Val(cj)
     IN IF c.j \notin DOMAIN jobs
        THEN CjEnd(c, "none", 500) /\ UNCHANGED bg
        ELSE IF c.upload # "none"
        THEN CjGoes(c, "loaded", jobs[c.j], "none") /\ UNCHANGED bg
        ELSE IF IsNone(_job_payload(jobs[c.j]))
        THEN CjEnd(c, "none", 500) /\ UNCHANGED bg
        ELSE /\ CjEnd(c, "none", 200)
             /\ bg' = bg \cup {Scheduled(<<"create", c.j>>, c.j, jobs[c.j])}
  /\ UNCHANGED << ML_SERVICE_TOKEN, jobs, nextId, taskVars, hubVars, callVars,
                  blobs, resultVars, parse >>

\* create_job, main.py:599-610: the archive check and the upload to the Blob
\* Store.  A refused archive (no upload is made) or a failed upload goes on
\* to job_crud.delete_job, a stored upload to job_crud.update_job_file_info.
CJ_Upload(uploadOk) ==
  /\ ~IsNone(cj)
  /\ Val(cj).pc = "loaded"
  /\ LET c == Val(cj)
         r == create_job_upload(c.upload, uploadOk)
     IN IF ~r.keep
        THEN CjGoes(c, "refused", c.loaded, r.put) /\ UNCHANGED blobs
        ELSE IF r.put # "ok"
        THEN CjEnd(c, r.put, r.code) /\ UNCHANGED blobs
        ELSE /\ blobs' = Put(blobs, InputObject, InputBytes(c.upload))
             /\ CjGoes(c, "stored", c.loaded, "ok")
  /\ UNCHANGED << ML_SERVICE_TOKEN, jobs, nextId, taskVars, hubVars, bg,
                  callVars, resultVars, parse >>

\* The response to a creation whose archive was refused (400) or whose
\* upload failed (500), main.py:603 and 637
RefusalCode(c) == IF c.put = "failed" THEN 500 ELSE 400

\* job_crud.delete_job, line 121, called at main.py:602 or 636: its query.
\* When the row is gone already it gives False, which create_job does not
\* look at: the request is answered.
CJ_DropQuery ==
  /\ ~IsNone(cj)
  /\ Val(cj).pc = "refused"
  /\ LET c == Val(cj)
     IN IF c.j \notin DOMAIN jobs
        THEN CjEnd(c, c.put, RefusalCode(c))
        ELSE CjGoes(c, "dropping", c.loaded, c.put)
  /\ UNCHANGED << ML_SERVICE_TOKEN, jobs, nextId, taskVars, hubVars, bg,
                  callVars, blobs, resultVars, parse >>

\* job_crud.delete_job, lines 125-126: the DELETE and its commit, then the
\* request is answered.  A DELETE that matches no row, the row deleted since
\* the query, is no error.  Nothing catches an error of the commit
\* (dropOk = FALSE): the exception leaves create_job before line 603 or 637
\* is reached (500) and the row stays.
CJ_DropCommit(dropOk) ==
  /\ ~IsNone(cj)
  /\ Val(cj).pc = "dropping"
  /\ LET c == Val(cj)
     IN IF ~dropOk
        THEN CjEnd(c, c.put, 500) /\ UNCHANGED jobs
        ELSE /\ jobs' = IF c.j \in DOMAIN jobs THEN Pop(jobs, c.j) ELSE jobs
             /\ CjEnd(c, c.put, RefusalCode(c))
  /\ UNCHANGED << ML_SERVICE_TOKEN, nextId, taskVars, hubVars, bg, callVars,
                  blobs, resultVars, parse >>

\* job_crud.update_job_file_info, line 86: its query, which gives None when
\* the row has been deleted: main.py:640 then raises AttributeError (500)
\* and the object stays in the Blob Store.  The query re-reads nothing of
\* the row the session has loaded.
CJ_FileQuery ==
  /\ ~IsNone(cj)
  /\ Val(cj).pc = "stored"
  /\ LET c == Val(cj)
     IN IF c.j \notin DOMAIN jobs
        THEN CjEnd(c, "ok", 500)
        ELSE CjGoes(c, "found", c.loaded, "ok")
  /\ UNCHANGED << ML_SERVICE_TOKEN, jobs, nextId, taskVars, hubVars, bg,
                  callVars, blobs, resultVars, parse >>

\* job_crud.update_job_file_info, lines 90-100: the file fields and the
\* commit.  When the commit raises (storeOk = FALSE) the exception leaves
\* create_job (500): the row stays as it is in the store and the object
\* stays in the Blob Store.  So it does when the row has been deleted: the
\* UPDATE matches no row.
CJ_FileCommit(storeOk) ==
  /\ ~IsNone(cj)
  /\ Val(cj).pc = "found"
  /\ LET c == Val(cj)
     IN IF ~storeOk \/ c.j \notin DOMAIN jobs
        THEN CjEnd(c, "ok", 500) /\ UNCHANGED jobs
        ELSE /\ jobs' = [jobs EXCEPT ![c.j] =
                           Flush(@, c.loaded, FileInfo(c.loaded, c.upload))]
             /\ CjGoes(c, "filed", c.loaded, "ok")
  /\ UNCHANGED << ML_SERVICE_TOKEN, nextId, taskVars, hubVars, bg, callVars,
                  blobs, resultVars, parse >>

\* job_crud.update_job_file_info, line 101: the refresh (500 when the row
\* has been deleted).
CJ_FileRefresh ==
  /\ ~IsNone(cj)
  /\ Val(cj).pc = "filed"
  /\ LET c == Val(cj)
     IN IF c.j \notin DOMAIN jobs
        THEN CjEnd(c, "ok", 500)
        ELSE CjGoes(c, "refreshed", jobs[c.j], "ok")
  /\ UNCHANGED << ML_SERVICE_TOKEN, jobs, nextId, taskVars, hubVars, bg,
                  callVars, blobs, resultVars, parse >>

\* The request is answered 200 with a stored file: the snapshot of `row` is
\* scheduled and process_job is started as a task (main.py:641-642); building
\* the snapshot raises when the row has no status (500, no task).
CjDispatch(c, row) ==
  IF IsNone(_job_payload(row))
  THEN CjEnd(c, "ok", 500) /\ UNCHANGED << bg, pj >>
  ELSE /\ CjEnd(c, "ok", 200)
       /\ bg' = bg \cup {Scheduled(<<"create", c.j>>, c.j, row)}
       /\ pj' = [pj EXCEPT ![c.j] = "start"]

\* create_job, line 640, and the query of job_crud.update_job_status
\* (job_crud.py:106): when the row has been deleted it gives None and
\* `or db_job` keeps the row as last re-read, which is broadcast and
\* dispatched.
CJ_StatusQuery ==
  /\ ~IsNone(cj)
  /\ Val(cj).pc = "refreshed"
  /\ LET c == Val(cj)
     IN IF c.j \notin DOMAIN jobs
        THEN CjDispatch(c, c.loaded)
        ELSE CjGoes(c, "checked", c.loaded, "ok") /\ UNCHANGED << bg, pj >>
  /\ UNCHANGED << ML_SERVICE_TOKEN, jobs, nextId, pjRow, inferCalls, failSubs,
                  hubVars, callVars, blobs, resultVars, parse >>

\* job_crud.update_job_status, lines 110-115, with status queued: the
\* assignment and the commit.  When the row has been deleted the UPDATE
\* matches no row and the commit raises (500); a commit that has nothing to
\* write does not look at the store.
CJ_StatusCommit ==
  /\ ~IsNone(cj)
  /\ Val(cj).pc = "checked"
  /\ LET c == Val(cj)
         assigned == update_job_status(c.loaded, "queued")
     IN IF c.j \notin DOMAIN jobs
        THEN IF assigned # c.loaded
             THEN CjEnd(c, "ok", 500) /\ UNCHANGED jobs
             ELSE CjGoes(c, "queued", c.loaded, "ok") /\ UNCHANGED jobs
        ELSE /\ jobs' = [jobs EXCEPT ![c.j] = Flush(@, c.loaded, assigned)]
             /\ CjGoes(c, "queued", c.loaded, "ok")
  /\ UNCHANGED << ML_SERVICE_TOKEN, nextId, taskVars, hubVars, bg, callVars,
                  blobs, resultVars, parse >>

\* job_crud.update_job_status, line 116, and create_job, lines 641-646: the
\* refresh (500 when the row has been deleted), then the snapshot of the row
\* as re-read is scheduled and process_job is started.
CJ_Finish ==
  /\ ~IsNone(cj)
  /\ Val(cj).pc = "queued"
  /\ LET c == Val(cj)
     IN IF c.j \notin DOMAIN jobs
        THEN CjEnd(c, "ok", 500) /\ UNCHANGED << bg, pj >>
        ELSE CjDispatch(c, jobs[c.j])
  /\ UNCHANGED << ML_SERVICE_TOKEN, jobs, nextId, pjRow, inferCalls, failSubs,
                  hubVars, callVars, blobs, resultVars, parse >>

\* ------------------------------------------------------------- process_job
\* The sockets that are subscribed to job j, under whichever identifier they
\* opened the channel with, and are still connected.
Subscribers(j) ==
  { w \in Sockets :
      /\ ws[w].pc = "open"
      /\ ~ws[w].peerClosed /\ ~ws[w].srvClosed
      /\ LookupJob(jobs, ws[w].key) = Some(j) }

\* `await broadcast_job_update(row)` inside process_job: the snapshot and the
\* first send; the task waits in pcWait while its broadcast is suspended.
PjBroadcast(j, status, pcWait, pcAfter) ==
  \E order \in Orders(Get(connections, _job_identifier(j))) :
    LET r == BroadcastBegin(<<"pj", j>>, _job_identifier(j), status, order, ws)
    IN /\ IsNone(lock)
       /\ bcasts' = IF r.started THEN bcasts \cup {r.b} ELSE bcasts
       /\ ws' = r.ws
       /\ lock' = r.lock
       /\ pj' = [pj EXCEPT ![j] = IF r.started THEN pcWait ELSE pcAfter]

\* process_job, lines 153-158: the except clause looks the job up again, in
\* the session of the task.  A row the session has loaded is not read again
\* by this query (`loaded` is kept), a row it has not loaded is read now.
\* Without a row the task ends, no error left.
LocalFailure(j, loaded) ==
  IF IsNone(LookupJob(jobs, UuidKey(j)))
  THEN /\ pj' = [pj EXCEPT ![j] = "failed"]
       /\ pjRow' = [pjRow EXCEPT ![j] = None]
  ELSE /\ pj' = [pj EXCEPT ![j] = "caught"]
       /\ pjRow' = [pjRow EXCEPT ![j] = IF IsNone(loaded) THEN Some(jobs[j])
                                        ELSE loaded]

\* process_job, lines 141-146: the task starts and looks its job up.  Without
\* a row it goes straight to the inference request.
PJ_Start(j) ==
  /\ LoopFree
  /\ pj[j] = "start"
  /\ IF IsNone(LookupJob(jobs, UuidKey(j)))
     THEN /\ pj' = [pj EXCEPT ![j] = "ready"]
          /\ UNCHANGED pjRow
     ELSE /\ pj' = [pj EXCEPT ![j] = "looked"]
          /\ pjRow' = [pjRow EXCEPT ![j] = Some(jobs[j])]
  /\ UNCHANGED << ML_SERVICE_TOKEN, jobs, nextId, cj, inferCalls, failSubs,
                  hubVars, bg, callVars, blobs, creation, resultVars, parse >>

\* job_crud.update_job_status, line 106: the query by numeric id.  When the
\* row has been deleted it gives None: nothing is broadcast and the task goes
\* on to the inference request.
PJ_Query(j) ==
  /\ pj[j] = "looked"
  /\ pj' = [pj EXCEPT ![j] = IF j \in DOMAIN jobs THEN "found" ELSE "ready"]
  /\ UNCHANGED << ML_SERVICE_TOKEN, jobs, nextId, cj, pjRow, inferCalls,
                  failSubs, hubVars, bg, callVars, blobs, creation, resultVars,
                  parse >>

\* job_crud.update_job_status, lines 110-115, on the stored row: status
\* processing is assigned to the loaded row and committed.
PjCommit(stored, loaded) ==
  Flush(stored, loaded, update_job_status(loaded, "processing"))

\* job_crud.update_job_status, lines 110-115: the commit of processing.  It
\* may raise (commitOk = FALSE), and it raises when the row has been deleted
\* and the UPDATE matches no row.  The except clause of process_job then
\* queries on the same session (main.py:155), which nothing has rolled back:
\* the query raises PendingRollbackError and the task ends with it, the row
\* left as it was and nothing broadcast.
PJ_Commit(j, commitOk) ==
  /\ pj[j] = "found"
  /\ LET loaded == Val(pjRow[j])
         dirty == update_job_status(loaded, "processing") # loaded
     IN IF ~commitOk \/ (j \notin DOMAIN jobs /\ dirty)
        THEN /\ pj' = [pj EXCEPT ![j] = "crashed"]
             /\ UNCHANGED << jobs, pjRow >>
        ELSE /\ pj' = [pj EXCEPT ![j] = "committed"]
             /\ jobs' = IF j \in DOMAIN jobs
                        THEN [jobs EXCEPT ![j] = PjCommit(@, loaded)]
                        ELSE jobs
             /\ UNCHANGED pjRow
  /\ UNCHANGED << ML_SERVICE_TOKEN, nextId, cj, inferCalls, failSubs, hubVars,
                  bg, callVars, blobs, creation, resultVars, parse >>

\* job_crud.update_job_status, line 116, and process_job, lines 148-149: the
\* refresh and the start of the broadcast of the row as re-read.  When the
\* row has been deleted the refresh raises, when it has no status
\* _job_payload raises: the except clause is entered, the session holding
\* the row as last read.
PJ_Refresh(j) ==
  /\ pj[j] = "committed"
  /\ IF j \notin DOMAIN jobs
     THEN /\ pj' = [pj EXCEPT ![j] = "raised"]
          /\ UNCHANGED << pjRow, bcasts, ws, lock >>
     ELSE IF IsNone(_job_payload(jobs[j]))
     THEN /\ pj' = [pj EXCEPT ![j] = "raised"]
          /\ pjRow' = [pjRow EXCEPT ![j] = Some(jobs[j])]
          /\ UNCHANGED << bcasts, ws, lock >>
     ELSE /\ pjRow' = [pjRow EXCEPT ![j] = Some(jobs[j])]
          /\ PjBroadcast(j, jobs[j].status, "bcast", "ready")
  /\ UNCHANGED << ML_SERVICE_TOKEN, jobs, nextId, cj, inferCalls, failSubs,
                  connections, bg, callVars, blobs, creation, resultVars,
                  parse >>

\* process_job, lines 153-158, entered from update_job_status or from the
\* processing broadcast: the query of the except clause.
PJ_Except(j) ==
  /\ pj[j] = "raised"
  /\ LocalFailure(j, pjRow[j])
  /\ UNCHANGED << ML_SERVICE_TOKEN, jobs, nextId, cj, inferCalls, failSubs,
                  hubVars, bg, callVars, blobs, creation, resultVars, parse >>

\* The call is issued without waiting for the processing broadcast.
PJ_CallEarly(j) ==
  /\ LoopFree
  /\ pj[j] \in {"ready", "bcast"}
  /\ pj' = [pj EXCEPT ![j] = "inflight"]
  /\ inferCalls' = [inferCalls EXCEPT ![j] = @ + 1]
  /\ UNCHANGED << ML_SERVICE_TOKEN, jobs, nextId, cj, pjRow, failSubs, hubVars,
                  bg, callVars, blobs, creation, resultVars, parse >>

\* A dispatch task that issues the inference request again after a failure.
PJ_CallRetries(j) ==
  /\ LoopFree
  /\ pj[j] \in {"ready", "failed"}
  /\ pj' = [pj EXCEPT ![j] = "inflight"]
  /\ inferCalls' = [inferCalls EXCEPT ![j] = @ + 1]
  /\ UNCHANGED << ML_SERVICE_TOKEN, jobs, nextId, cj, pjRow, failSubs, hubVars,
                  bg, callVars, blobs, creation, resultVars, parse >>

\* process_job, lines 151-152, and ModelAdapter.run_inference up to
\* client.post: the inference request is issued once the awaited broadcast
\* has returned.
PJ_Call(j) ==
  /\ LoopFree
  /\ pj[j] = "ready"
  /\ pj' = [pj EXCEPT ![j] = "inflight"]
  /\ inferCalls' = [inferCalls EXCEPT ![j] = @ + 1]
  /\ UNCHANGED << ML_SERVICE_TOKEN, jobs, nextId, cj, pjRow, failSubs, hubVars,
                  bg, callVars, blobs, creation, resultVars, parse >>

\* How ModelAdapter.run_inference ends: it returns a result, or raises
\* httpx.RequestError (a transport error or a timeout, adapter.py:52),
\* httpx.HTTPStatusError (non-2xx, adapter.py:58) or an error reading the
\* body (response.json() or a missing key, adapter.py:62-66).
Outcomes == {"ok", "RequestError", "HTTPStatusError", "BodyError"}

\* A dispatch task that marks the job succeeded when the call returns.
PJ_ResponseMarksSucceeded(j, outcome) ==
  /\ LoopFree
  /\ pj[j] = "inflight"
  /\ IF outcome = "ok"
     THEN /\ pj' = [pj EXCEPT ![j] = "returned"]
          /\ jobs' = IF j \in DOMAIN jobs
                     THEN [jobs EXCEPT ![j] = update_job_status(@, "succeeded")]
                     ELSE jobs
          /\ UNCHANGED pjRow
     ELSE LocalFailure(j, pjRow[j]) /\ UNCHANGED jobs
  /\ UNCHANGED << ML_SERVICE_TOKEN, nextId, cj, inferCalls, failSubs, hubVars,
                  bg, callVars, blobs, creation, resultVars, parse >>

\* process_job resumes from run_inference: on a result it returns and leaves
\* the row alone; on any exception the except clause runs, in the session
\* that holds the row as update_job_status re-read it.
PJ_Response(j, outcome) ==
  /\ LoopFree
  /\ pj[j] = "inflight"
  /\ IF outcome = "ok"
     THEN /\ pj' = [pj EXCEPT ![j] = "returned"]
          /\ UNCHANGED pjRow
     ELSE LocalFailure(j, pjRow[j])
  /\ UNCHANGED << ML_SERVICE_TOKEN, jobs, nextId, cj, inferCalls, failSubs,
                  hubVars, bg, callVars, blobs, creation, resultVars, parse >>

\* process_job, lines 159-161, on the stored row: status failed is assigned
\* to the loaded row and committed.
PjFailCommit(stored, loaded) ==
  Flush(stored, loaded, [loaded EXCEPT !.status = "failed"])

\* process_job, lines 159-161: the except clause writes failed and commits.
\* Nothing catches an error of this commit (storeOk = FALSE, or the row has
\* been deleted and the UPDATE matches no row): the task then ends with that
\* error and the row is left as it was.
PJ_FailCommit(j, storeOk) ==
  /\ pj[j] = "caught"
  /\ LET loaded == Val(pjRow[j])
         dirty == loaded.status # "failed"
     IN IF ~storeOk \/ (j \notin DOMAIN jobs /\ dirty)
        THEN /\ pj' = [pj EXCEPT ![j] = "crashed"]
             /\ UNCHANGED << jobs, failSubs >>
        ELSE /\ pj' = [pj EXCEPT ![j] = "fcommitted"]
             /\ jobs' = IF j \in DOMAIN jobs
                        THEN [jobs EXCEPT ![j] = PjFailCommit(@, loaded)]
                        ELSE jobs
             /\ failSubs' = [failSubs EXCEPT ![j] = Subscribers(j)]
  /\ UNCHANGED << ML_SERVICE_TOKEN, nextId, cj, pjRow, inferCalls, hubVars, bg,
                  callVars, blobs, creation, resultVars, parse >>

\* An except clause that broadcasts failed, the status it assigned, without
\* reading the row again.
PJ_FailRefreshAssumesFailed(j) ==
  /\ pj[j] = "fcommitted"
  /\ IF j \notin DOMAIN jobs
     THEN /\ pj' = [pj EXCEPT ![j] = "crashed"]
          /\ UNCHANGED << pjRow, bcasts, ws, lock >>
     ELSE /\ UNCHANGED pjRow
          /\ PjBroadcast(j, "failed", "bcast_failed", "failed")
  /\ UNCHANGED << ML_SERVICE_TOKEN, jobs, nextId, cj, inferCalls, failSubs,
                  connections, bg, callVars, blobs, creation, resultVars,
                  parse >>

\* process_job, lines 162-163: the refresh and the start of the broadcast of
\* the row as re-read.  When the row has been deleted the refresh raises,
\* when it has no status _job_payload raises: the task ends with that error.
PJ_FailRefresh(j) ==
  /\ pj[j] = "fcommitted"
  /\ IF j \notin DOMAIN jobs \/ IsNone(_job_payload(jobs[j]))
     THEN /\ pj' = [pj EXCEPT ![j] = "crashed"]
          /\ UNCHANGED << pjRow, bcasts, ws, lock >>
     ELSE /\ pjRow' = [pjRow EXCEPT ![j] = Some(jobs[j])]
          /\ PjBroadcast(j, jobs[j].status, "bcast_failed", "failed")
  /\ UNCHANGED << ML_SERVICE_TOKEN, jobs, nextId, cj, inferCalls, failSubs,
                  connections, bg, callVars, blobs, creation, resultVars,
                  parse >>

\* ------------------------------------------------------------ complete_job
\* The header presents the configured secret: bare, or after a "Bearer "
\* prefix in any letter case.  Without a configured secret none presents it.
PresentsSecret(expected, auth) ==
  /\ ~Falsy(expected)
  /\ ~IsNone(auth)
  /\ \/ Val(auth) = Val(expected)
     \/ \E prefix \in {BearerLower, BearerTitle, BearerUpper} :
          Val(auth) = prefix \o Val(expected)

\* The response code of callback n is recorded.
CbAnswer(n, code) == cbAns' = [cbAns EXCEPT ![n].code = code]

\* complete_job, main.py:938-944: the token check (401) and the lookup
\* (404).  A request that found its row goes on in its worker thread with
\* the row as loaded.  cbAns keeps what the request presented and the
\* response code.
CompleteJob(id, auth, payload) ==
  /\ nCb < MaxCallbacks
  /\ nCb' = nCb + 1
  /\ LET found == LookupJob(jobs, id)
         code == IF ~_validate_ml_service_token(ML_SERVICE_TOKEN, auth) THEN 401
                 ELSE IF IsNone(found) THEN 404
                 ELSE 0
     IN /\ cbAns' = Append(cbAns, [secret |-> PresentsSecret(ML_SERVICE_TOKEN, auth),
                                 code |-> code])
        /\ calls' = IF code # 0 THEN calls
                    ELSE [calls EXCEPT !.cb = @ \cup
                            {[ n |-> nCb + 1, j |-> Val(found), pc |-> "looked",
                               loaded |-> jobs[Val(found)], body |-> payload ]}]
  /\ UNCHANGED << ML_SERVICE_TOKEN, jobs, nextId, cj, taskVars, hubVars, bg,
                  nUpd, nDel, cbLog, updLast, delLast, blobs, creation,
                  resultVars, parse >>

\* complete_job, main.py:954-963: the assignments and the commit.  When the
\* row has been deleted the UPDATE matches no row and the commit raises
\* (500); a commit that has nothing to write does not look at the store.
\* cbLog keeps the bodies committed.
CbCommit(c) ==
  /\ c \in calls.cb
  /\ c.pc = "looked"
  /\ LET assigned == ApplyCompletion(c.loaded, c.body)
     IN IF c.j \notin DOMAIN jobs
        THEN IF assigned # c.loaded
             THEN /\ calls' = [calls EXCEPT !.cb = @ \ {c}]
                  /\ CbAnswer(c.n, 500)
                  /\ UNCHANGED << jobs, cbLog >>
             ELSE /\ calls' = [calls EXCEPT !.cb = (@ \ {c}) \cup
                                 {[c EXCEPT !.pc = "committed"]}]
                  /\ UNCHANGED << jobs, cbLog, cbAns >>
        ELSE /\ jobs' = [jobs EXCEPT ![c.j] = Flush(@, c.loaded, assigned)]
             /\ cbLog' = [cbLog EXCEPT ![c.j] = Append(@, c.body)]
             /\ calls' = [calls EXCEPT !.cb = (@ \ {c}) \cup
                            {[c EXCEPT !.pc = "committed"]}]
             /\ UNCHANGED cbAns
  /\ UNCHANGED << ML_SERVICE_TOKEN, nextId, cj, taskVars, hubVars, bg, nCb,
                  nUpd, nDel, updLast, delLast, blobs, creation, resultVars,
                  parse >>

\* complete_job, main.py:964-967: the refresh, which raises when the row has
\* been deleted (500), and the snapshot of the row as re-read, which raises
\* when it has no status (500); otherwise the snapshot is scheduled and the
\* request is answered.
CbRefresh(c) ==
  /\ c \in calls.cb
  /\ c.pc = "committed"
  /\ calls' = [calls EXCEPT !.cb = @ \ {c}]
  /\ IF c.j \notin DOMAIN jobs \/ IsNone(_job_payload(jobs[c.j]))
     THEN CbAnswer(c.n, 500) /\ UNCHANGED bg
     ELSE /\ CbAnswer(c.n, 200)
          /\ bg' = bg \cup {Scheduled(<<"cb", c.n>>, c.j, jobs[c.j])}
  /\ UNCHANGED << ML_SERVICE_TOKEN, jobs, nextId, cj, taskVars, hubVars, nCb,
                  nUpd, nDel, cbLog, updLast, delLast, blobs, creation,
                  resultVars, parse >>

\* -------------------------------------------------------------- update_job
\* The owner's PUT /jobs/{job_id}, main.py:737-743: the lookup (404).
UpdateJob(j, upd) ==
  /\ nUpd < MaxUpdates
  /\ nUpd' = nUpd + 1
  /\ IF j \notin DOMAIN jobs
     THEN /\ updLast' = Some(404)
          /\ UNCHANGED calls
     ELSE /\ calls' = [calls EXCEPT !.upd = @ \cup
                         {[ n |-> nUpd + 1, j |-> j, pc |-> "looked",
                            loaded |-> jobs[j], body |-> upd ]}]
          /\ UNCHANGED updLast
  /\ UNCHANGED << ML_SERVICE_TOKEN, jobs, nextId, cj, taskVars, hubVars, bg,
                  nCb, nDel, cbLog, cbAns, delLast, blobs, creation,
                  resultVars, parse >>

\* job_crud.update_job, line 72, called at main.py:745: its own query.
\* When the row has been deleted it gives None, and line 746 raises
\* AttributeError on None: the request is answered 500.  The query re-reads
\* nothing of a row the session has loaded.
UpdQuery(c) ==
  /\ c \in calls.upd
  /\ c.pc = "looked"
  /\ IF c.j \notin DOMAIN jobs
     THEN /\ calls' = [calls EXCEPT !.upd = @ \ {c}]
          /\ updLast' = Some(500)
     ELSE /\ calls' = [calls EXCEPT !.upd = (@ \ {c}) \cup
                         {[c EXCEPT !.pc = "found"]}]
          /\ UNCHANGED updLast
  /\ UNCHANGED << ML_SERVICE_TOKEN, jobs, nextId, cj, taskVars, hubVars, bg,
                  nCb, nUpd, nDel, cbLog, cbAns, delLast, blobs, creation,
                  resultVars, parse >>

\* job_crud.update_job, lines 76-80: the assignments and the commit.  When
\* the row has been deleted the UPDATE matches no row and the commit raises
\* (500); a commit that has nothing to write does not look at the store.
UpdCommit(c) ==
  /\ c \in calls.upd
  /\ c.pc = "found"
  /\ LET assigned == update_job(c.loaded, c.body)
     IN IF c.j \notin DOMAIN jobs /\ assigned # c.loaded
        THEN /\ calls' = [calls EXCEPT !.upd = @ \ {c}]
             /\ updLast' = Some(500)
             /\ UNCHANGED jobs
        ELSE /\ jobs' = IF c.j \in DOMAIN jobs
                        THEN [jobs EXCEPT ![c.j] = Flush(@, c.loaded, assigned)]
                        ELSE jobs
             /\ calls' = [calls EXCEPT !.upd = (@ \ {c}) \cup
                            {[c EXCEPT !.pc = "committed"]}]
             /\ UNCHANGED updLast
  /\ UNCHANGED << ML_SERVICE_TOKEN, nextId, cj, taskVars, hubVars, bg, nCb,
                  nUpd, nDel, cbLog, cbAns, delLast, blobs, creation,
                  resultVars, parse >>

\* job_crud.update_job, line 81, and main.py:746-747: the refresh (500 when
\* the row has been deleted) and the snapshot of the row as re-read (500 when
\* it has no status); otherwise the snapshot is scheduled and the request is
\* answered.
UpdRefresh(c) ==
  /\ c \in calls.upd
  /\ c.pc = "committed"
  /\ calls' = [calls EXCEPT !.upd = @ \ {c}]
  /\ IF c.j \notin DOMAIN jobs \/ IsNone(_job_payload(jobs[c.j]))
     THEN updLast' = Some(500) /\ UNCHANGED bg
     ELSE /\ updLast' = Some(200)
          /\ bg' = bg \cup {Scheduled(<<"upd", c.n>>, c.j, jobs[c.j])}
  /\ UNCHANGED << ML_SERVICE_TOKEN, jobs, nextId, cj, taskVars, hubVars, nCb,
                  nUpd, nDel, cbLog, cbAns, delLast, blobs, creation,
                  resultVars, parse >>

\* -------------------------------------------------------------- delete_job
\* The owner's DELETE /jobs/{job_id}, main.py:764-766: the lookup (404).  A
\* request that found its row goes on in its worker thread with the file
\* path of the row as loaded: to the removal of the stored object when the
\* row names one (line 774), to job_crud.delete_job otherwise.  No snapshot
\* is scheduled and the dispatch task is not told.
DeleteJob(j) ==
  /\ nDel < MaxDeletes
  /\ nDel' = nDel + 1
  /\ IF j \notin DOMAIN jobs
     THEN /\ delLast' = Some(404)
          /\ UNCHANGED calls
     ELSE /\ calls' = [calls EXCEPT !.del = @ \cup
                         {[ n |-> nDel + 1, j |-> j,
                            pc |-> IF FalsyStr(jobs[j].file_path)
                                   THEN "removed" ELSE "looked",
                            file_path |-> jobs[j].file_path ]}]
          /\ UNCHANGED delLast
  /\ UNCHANGED << ML_SERVICE_TOKEN, jobs, nextId, cj, taskVars, hubVars, bg,
                  nCb, nUpd, cbLog, cbAns, updLast, blobs, creation,
                  resultVars, parse >>

\* main.py:773-774 and minio_utils.delete_file_from_minio: remove_object on
\* the object the loaded row names.  It gives False on any error, which the
\* handler ignores (removeOk = FALSE).
DelRemove(c, removeOk) ==
  /\ c \in calls.del
  /\ c.pc = "looked"
  /\ blobs' = IF removeOk /\ Val(c.file_path) \in DOMAIN blobs
               THEN Pop(blobs, Val(c.file_path)) ELSE blobs
  /\ calls' = [calls EXCEPT !.del = (@ \ {c}) \cup
                  {[c EXCEPT !.pc = "removed"]}]
  /\ UNCHANGED << ML_SERVICE_TOKEN, jobs, nextId, cj, taskVars, hubVars, bg,
                  nCb, nUpd, nDel, cbLog, cbAns, updLast, delLast, creation,
                  resultVars, parse >>

\* job_crud.delete_job, line 121, called at main.py:777: its own query,
\* which gives False when the row is gone already: the request is answered
\* 500 (main.py:778-779).
DelQuery(c) ==
  /\ c \in calls.del
  /\ c.pc = "removed"
  /\ IF c.j \notin DOMAIN jobs
     THEN /\ calls' = [calls EXCEPT !.del = @ \ {c}]
          /\ delLast' = Some(500)
     ELSE /\ calls' = [calls EXCEPT !.del = (@ \ {c}) \cup
                         {[c EXCEPT !.pc = "found"]}]
          /\ UNCHANGED delLast
  /\ UNCHANGED << ML_SERVICE_TOKEN, jobs, nextId, cj, taskVars, hubVars, bg,
                  nCb, nUpd, nDel, cbLog, cbAns, updLast, blobs, creation,
                  resultVars, parse >>

\* job_crud.delete_job, lines 125-127, and main.py:781: the DELETE and its
\* commit, then the request is answered 200.  A DELETE that matches no row,
\* the row deleted since the query, is no error.
DelCommit(c) ==
  /\ c \in calls.del
  /\ c.pc = "found"
  /\ calls' = [calls EXCEPT !.del = @ \ {c}]
  /\ delLast' = Some(200)
  /\ jobs' = IF c.j \in DOMAIN jobs THEN Pop(jobs, c.j) ELSE jobs
  /\ UNCHANGED << ML_SERVICE_TOKEN, nextId, cj, taskVars, hubVars, bg, nCb,
                  nUpd, nDel, cbLog, cbAns, updLast, blobs, creation,
                  resultVars, parse >>

\* ---------------------------------------------------------- get_job_results
\* minio_utils.get_file_from_minio: (False, b"") on any error, the stored
\* bytes otherwise.  The output key is written by the inference service.
get_file_from_minio(store, key, fetchOk) ==
  IF ~fetchOk THEN None
  ELSE IF key = OutputObject THEN Some(OutputBytes)
  ELSE IF key \in DOMAIN store THEN Some(store[key])
  ELSE None

\* parse_job_xlsx (job_results.py:10-35) at clock reading t: load_workbook
\* raises on bytes that are no workbook (None); the rows are those of the
\* sheet, and "parsed_at" is datetime.utcnow() at the parse.  The clock
\* readings of different requests differ.
parse_job_xlsx(file_bytes, t) ==
  IF ~file_bytes.workbook THEN None
  ELSE Some([ parsed_at |-> t, summary |-> Len(file_bytes.rows),
              rows |-> file_bytes.rows ])

\* What the clock may have advanced by since the latest reading taken
Ticks == {0, 1}

\* A results mapping without rows
EmptyResults == [ parsed_at |-> 0, summary |-> 0, rows |-> <<>> ]

\* json.dumps of a parsed results mapping: its JSON text.  Truncated(text) is
\* a JSON text cut short, as a row written by something else than line 1000
\* may hold.  json.loads gives the mapping of a JSON text and raises
\* JSONDecodeError (None) on a text cut short.
Dumps(parsed) == <<"json", parsed>>
Truncated(text) == <<"cut", text[2]>>
Loads(text) == IF text[1] = "json" THEN Some(text[2]) ELSE None

\* get_job_results, main.py:975-993, called by the owner: the lookup (404),
\* the cached answer, and 404 for a row that names no file.  json.loads of
\* line 988 raises on a cached text that is no JSON: nothing catches it and
\* the request is answered 500.  Otherwise the request goes on in its worker
\* thread, in grCalls, with the row as loaded.
GetResults(id) ==
  /\ nRes < MaxResults
  /\ nRes' = nRes + 1
  /\ LET found == LookupJob(jobs, id)
         j == Val(found)
         row == jobs[j]
         Answer(code, source, results) ==
           /\ grLast' = Some([call |-> nRes + 1,
                              job |-> IF IsNone(found) THEN 0 ELSE j,
                              code |-> code, source |-> source,
                              results |-> results])
           /\ UNCHANGED grCalls
     IN IF IsNone(found) THEN Answer(404, "", None)
        ELSE IF ~IsNone(row.results_payload)
        THEN IF IsNone(Loads(Val(row.results_payload)))
             THEN Answer(500, "", None)
             ELSE Answer(200, "cached", Loads(Val(row.results_payload)))
        ELSE IF FalsyStr(row.file_path) THEN Answer(404, "", None)
        ELSE /\ grCalls' = grCalls \cup {[call |-> nRes + 1, job |-> j,
                                          pc |-> "looked", loaded |-> row,
                                          file_bytes |-> None,
                                          parsed |-> None, stamp |-> None]}
             /\ UNCHANGED grLast
  /\ UNCHANGED << ML_SERVICE_TOKEN, jobs, nextId, cj, taskVars, hubVars, bg,
                  callVars, blobs, creation, now, firstFresh, parse >>

\* The response of results request c is recorded.
GrAnswer(c, code, source, results) ==
  grLast' = Some([call |-> c.call, job |-> c.job, code |-> code,
                  source |-> source, results |-> results])

\* A results request that caches an empty payload and schedules a snapshot
\* when the stored file cannot be fetched.
GetResultsCachesFailure(c, fetchOk) ==
  /\ c \in grCalls
  /\ c.pc = "looked"
  /\ LET fetched == get_file_from_minio(blobs, Val(c.loaded.file_path), fetchOk)
         empty == [c.loaded EXCEPT !.results_payload = Some(Dumps(EmptyResults))]
     IN IF IsNone(fetched)
        THEN /\ GrAnswer(c, 500, "", None)
             /\ grCalls' = grCalls \ {c}
             /\ jobs' = IF c.job \in DOMAIN jobs
                        THEN [jobs EXCEPT ![c.job] = empty] ELSE jobs
             /\ bg' = bg \cup {Scheduled(<<"results", c.call>>, c.job, empty)}
        ELSE /\ grCalls' = (grCalls \ {c}) \cup
                              {[c EXCEPT !.pc = "fetched", !.file_bytes = fetched]}
             /\ UNCHANGED << grLast, jobs, bg >>
  /\ UNCHANGED << ML_SERVICE_TOKEN, nextId, cj, taskVars, hubVars, callVars,
                  blobs, creation, nRes, now, firstFresh, parse >>

\* get_job_results, main.py:995-997: get_object on the file the loaded row
\* names, as the bucket holds it at that moment; 500 when it fails.  The
\* request keeps the bytes it got.
GetResultsFetch(c, fetchOk) ==
  /\ c \in grCalls
  /\ c.pc = "looked"
  /\ LET fetched == get_file_from_minio(blobs, Val(c.loaded.file_path), fetchOk)
     IN IF IsNone(fetched)
        THEN /\ GrAnswer(c, 500, "", None)
             /\ grCalls' = grCalls \ {c}
        ELSE /\ grCalls' = (grCalls \ {c}) \cup
                              {[c EXCEPT !.pc = "fetched", !.file_bytes = fetched]}
             /\ UNCHANGED grLast
  /\ UNCHANGED << ML_SERVICE_TOKEN, jobs, nextId, cj, taskVars, hubVars, bg,
                  callVars, blobs, creation, nRes, now, firstFresh, parse >>

\* get_job_results, main.py:999: the parse of the bytes the request holds,
\* whatever the bucket holds by now.  load_workbook raises on bytes that are
\* no workbook, before the clock is read: 500.  Otherwise the parse reads the
\* clock for "parsed_at" of the payload (job_results.py:30).
GetResultsParse(c) ==
  /\ c \in grCalls
  /\ c.pc = "fetched"
  /\ LET parsed == parse_job_xlsx(Val(c.file_bytes), now + 1)
     IN IF IsNone(parsed)
        THEN /\ GrAnswer(c, 500, "", None)
             /\ grCalls' = grCalls \ {c}
             /\ UNCHANGED now
        ELSE /\ now' = now + 1
             /\ grCalls' = (grCalls \ {c}) \cup
                              {[c EXCEPT !.pc = "parsed", !.parsed = parsed]}
             /\ UNCHANGED grLast
  /\ UNCHANGED << ML_SERVICE_TOKEN, jobs, nextId, cj, taskVars, hubVars, bg,
                  callVars, blobs, creation, nRes, firstFresh, parse >>

\* get_job_results, main.py:1000-1002: the assignments to the loaded row.
\* Line 1001 reads the clock again for results_parsed_at: the reading is the
\* latest one taken by any request when the clock has not moved since
\* (tick = 0), a later one otherwise.  Nothing is written yet: the request
\* holds the reading until its commit.
GetResultsStamp(c, tick) ==
  /\ c \in grCalls
  /\ c.pc = "parsed"
  /\ now' = now + tick
  /\ grCalls' = (grCalls \ {c}) \cup
                   {[c EXCEPT !.pc = "stamped", !.stamp = Some(now + tick)]}
  /\ UNCHANGED << ML_SERVICE_TOKEN, jobs, nextId, cj, taskVars, hubVars, bg,
                  callVars, blobs, creation, nRes, grLast, firstFresh, parse >>

\* get_job_results, main.py:1003: the commit.  The UPDATE carries the payload
\* and the results_parsed_at assigned before.  When the row has been deleted
\* it matches no row and the commit raises: the request is answered 500.
GetResultsCommit(c) ==
  /\ c \in grCalls
  /\ c.pc = "stamped"
  /\ IF c.job \notin DOMAIN jobs
     THEN /\ GrAnswer(c, 500, "", None)
          /\ grCalls' = grCalls \ {c}
          /\ UNCHANGED jobs
     ELSE /\ jobs' = [jobs EXCEPT ![c.job] =
                        Flush(@, c.loaded,
                              [c.loaded EXCEPT
                                 !.results_payload = Some(Dumps(Val(c.parsed))),
                                 !.results_parsed_at = c.stamp])]
          /\ grCalls' = (grCalls \ {c}) \cup {[c EXCEPT !.pc = "committed"]}
          /\ UNCHANGED grLast
  /\ UNCHANGED << ML_SERVICE_TOKEN, nextId, cj, taskVars, hubVars, bg,
                  callVars, blobs, creation, nRes, now, firstFresh, parse >>

\* get_job_results, main.py:1004-1013: the refresh (500 when the row has been
\* deleted) and the snapshot of the row as re-read (500 when it has no
\* status); otherwise the snapshot is scheduled and the parse is answered
\* tagged fresh.
GetResultsRefresh(c) ==
  /\ c \in grCalls
  /\ c.pc = "committed"
  /\ grCalls' = grCalls \ {c}
  /\ IF c.job \notin DOMAIN jobs \/ IsNone(_job_payload(jobs[c.job]))
     THEN /\ GrAnswer(c, 500, "", None)
          /\ UNCHANGED << bg, firstFresh >>
     ELSE /\ bg' = bg \cup {Scheduled(<<"results", c.call>>, c.job, jobs[c.job])}
          /\ GrAnswer(c, 200, "fresh", c.parsed)
          /\ firstFresh' = [firstFresh EXCEPT ![c.job] =
                              IF IsNone(@) THEN c.parsed ELSE @]
  /\ UNCHANGED << ML_SERVICE_TOKEN, jobs, nextId, cj, taskVars, hubVars,
                  callVars, blobs, creation, nRes, now, parse >>

\* ------------------------------------------------------ the results parser
\* A cell value as the workbook gives it: None, text, a whole number or a
\* boolean.
Str(s) == <<"str", s>>
Num(n) == <<"int", n>>
Bool(v) == <<"bool", v>>
IsStr(v) == ~IsNone(v) /\ v[1] = "str"
IsNum(v) == ~IsNone(v) /\ v[1] = "int"
IsBool(v) == ~IsNone(v) /\ v[1] = "bool"

\* The cells of a header row: blank (None), or text.
HeaderCells ==
  { None, Str("study_uid"), Str("Study_UID"), Str(" study_uid "),
    Str("probability_of_pathology"), Str("probability_of_pathology_percent"),
    Str("pathology"), Str("prob@anomaly"), Str("Prob@Tumor") }

\* The cells of a data row
DataCells == { None, Str(""), Str(" 0,5 "), Str("yes"), Num(1), Bool(TRUE) }

MaxColumns == 3

\* The rows explored: one to MaxColumns cells
HeaderRows(n) == [1..n -> HeaderCells]
DataRows(n) == [1..n -> DataCells]

\* str() of a cell value that is not None
PyStr(v) ==
  CASE IsStr(v) -> v[2]
    [] IsNum(v) -> (CASE v[2] = 0 -> "0" [] v[2] = 1 -> "1")
    [] IsBool(v) -> (IF v[2] THEN "True" ELSE "False")

\* str.strip() and str.lower() of the texts that occur
Strip(text) ==
  CASE text = " study_uid " -> "study_uid"
    [] text = " 0,5 " -> "0,5"
    [] OTHER -> text

Lower(text) ==
  CASE text = "Study_UID" -> "study_uid"
    [] text = "Prob@Tumor" -> "prob@tumor"
    [] text = "True" -> "true"
    [] text = "False" -> "false"
    [] OTHER -> text

\* float(text.replace(',', '.')) of the texts that occur, in hundredths:
\* float() skips blanks around the number and raises ValueError (None) on
\* text that is no number.
ParseFloat(text) ==
  CASE text \in {" 0,5 ", "0,5"} -> Some(50)
    [] text \in {"0", "1"} -> Some(IF text = "1" THEN 100 ELSE 0)
    [] OTHER -> None

\* _to_str (job_results.py:106-109)
_to_str(v) == IF IsNone(v) THEN None ELSE Some(Strip(PyStr(v)))

\* _to_float (job_results.py:112-120), in hundredths; bool is an int.
_to_float(v) ==
  IF IsNone(v) \/ v = Str("") THEN None
  ELSE IF IsNum(v) THEN Some(100 * v[2])
  ELSE IF IsBool(v) THEN Some(IF v[2] THEN 100 ELSE 0)
  ELSE ParseFloat(PyStr(v))

\* _normalize_row, lines 51-56: a boolean as it is, text by its meaning,
\* nothing otherwise.  The set of line 56 also holds the Russian word for
\* yes, which no cell explored holds.
PathologyOf(v) ==
  IF IsBool(v) THEN Some(v[2])
  ELSE IF IsStr(v) THEN Some(Lower(Strip(v[2])) \in {"true", "1", "yes"})
  ELSE None

\* parse_job_xlsx, lines 14-17: the header of a cell
HeaderOf(cell) == IF IsNone(cell) THEN "" ELSE Strip(PyStr(cell))
SheetHeaders(cells) == [i \in 1..Len(cells) |-> HeaderOf(cells[i])]

\* The largest member of a non-empty set of numbers
Last(S) == CHOOSE i \in S : \A k \in S : k <= i

\* parse_job_xlsx, line 18: a dict comprehension keeps, for a key given more
\* than once, the last value.  Indices count from 1 here and from 0 there.
header_map(headers) ==
  [ t \in {Lower(headers[i]) : i \in 1..Len(headers)} |->
      Last({i \in 1..Len(headers) : Lower(headers[i]) = t}) ]

\* list(row.keys()) of the dict of line 24: every header once, at the place
\* where it came first
RECURSIVE RowKeysFrom(_, _)
RowKeysFrom(headers, i) ==
  IF i > Len(headers) THEN <<>>
  ELSE (IF \E k \in 1..(i - 1) : headers[k] = headers[i]
        THEN <<>> ELSE <<headers[i]>>) \o RowKeysFrom(headers, i + 1)

RowKeys(headers) == RowKeysFrom(headers, 1)

\* row.get(key) on the dict of line 24: the value given last for the key
RowGet(headers, values, key) ==
  values[Last({i \in 1..Len(headers) : headers[i] = key})]

\* _normalize_row._get (job_results.py:39-45): the first of `keys` that is in
\* the header map selects list(row.keys())[header_map[lower]]; an index past
\* the end of that list raises IndexError.  None when no key is in the map.
_get(headers, values, keys) ==
  LET hm == header_map(headers)
      found == {a \in 1..Len(keys) : Lower(keys[a]) \in DOMAIN hm}
      first == CHOOSE a \in found : \A k \in found : a <= k
      index == hm[Lower(keys[first])]
  IN IF found = {} THEN [error |-> FALSE, value |-> None]
     ELSE IF index > Len(RowKeys(headers))
     THEN [error |-> TRUE, value |-> None]
     ELSE [error |-> FALSE,
           value |-> RowGet(headers, values, RowKeys(headers)[index])]

\* The names a field is looked up under (job_results.py:47-66)
Aliases ==
  [ study_uid |-> <<"study_uid">>,
    series_uid |-> <<"series_uid">>,
    probability_of_pathology |->
      <<"probability_of_pathology", "probability_of_pathology_percent">>,
    pathology |-> <<"pathology">>,
    time_of_processing |->
      <<"time_of_processing", "processing_time", "time_of_analysis">>,
    most_dangerous_pathology_type |-> <<"most_dangerous_pathology_type">>,
    probability_of_anomaly |->
      <<"probability_of_anomaly", "probability_of_anomaly_percent", "anom_score">> ]

\* key_lower.replace("prob@", "") of a key that starts with "prob@", None
\* for a key that does not (job_results.py:90, 94)
ProbType(key_lower) ==
  CASE key_lower = "prob@anomaly" -> Some("anomaly")
    [] key_lower = "prob@tumor" -> Some("tumor")
    [] OTHER -> None

\* _extract_max_probability (job_results.py:83-95): the loop over
\* row.items() from key number i on, with the best pair so far
RECURSIVE MaxProbabilityFrom(_, _, _, _)
MaxProbabilityFrom(headers, values, i, best) ==
  LET keys == RowKeys(headers)
      key_lower == Lower(keys[i])
      numeric == _to_float(RowGet(headers, values, keys[i]))
  IN IF i > Len(keys) THEN best
     ELSE IF /\ ~IsNone(ProbType(key_lower))
             /\ ~IsNone(numeric)
             /\ (IsNone(best.value) \/ Val(numeric) > Val(best.value))
     THEN MaxProbabilityFrom(headers, values, i + 1,
                             [type |-> ProbType(key_lower), value |-> numeric])
     ELSE MaxProbabilityFrom(headers, values, i + 1, best)

_extract_max_probability(headers, values) ==
  MaxProbabilityFrom(headers, values, 1, [type |-> None, value |-> None])

\* _extract_probability_by_prefix (job_results.py:98-103): the value of the
\* first key that is the prefix, letter case apart
_extract_probability_by_prefix(headers, values, prefix) ==
  LET keys == RowKeys(headers)
      hits == {i \in 1..Len(keys) : Lower(keys[i]) = Lower(prefix)}
      first == CHOOSE i \in hits : \A k \in hits : i <= k
  IN IF hits = {} THEN None
     ELSE _to_float(RowGet(headers, values, keys[first]))

\* _normalize_row (job_results.py:38-80): it raises IndexError when a lookup
\* does, and gives the row of eight fields otherwise.
_normalize_row(headers, values) ==
  LET got == [f \in DOMAIN Aliases |-> _get(headers, values, Aliases[f])]
      raised == \E f \in DOMAIN Aliases : got[f].error
      dangerous_type == _to_str(got.most_dangerous_pathology_type.value)
      hazard == _extract_max_probability(headers, values)
      anomaly == _to_float(got.probability_of_anomaly.value)
      row ==
        [ study_uid |-> _to_str(got.study_uid.value),
          series_uid |-> _to_str(got.series_uid.value),
          probability_of_pathology |->
            _to_float(got.probability_of_pathology.value),
          pathology |-> PathologyOf(got.pathology.value),
          time_of_processing |-> _to_str(got.time_of_processing.value),
          most_dangerous_pathology_type |->
            IF FalsyStr(dangerous_type) /\ ~FalsyStr(hazard.type)
            THEN hazard.type ELSE dangerous_type,
          hazard_probability |-> hazard.value,
          probability_of_anomaly |->
            IF IsNone(anomaly)
            THEN _extract_probability_by_prefix(headers, values, "prob@anomaly")
            ELSE anomaly ]
  IN [ raised |-> IF raised THEN "IndexError" ELSE "",
       rows |-> IF raised THEN <<>> ELSE <<row>> ]

\* parse_job_xlsx, lines 14-27, on a sheet with a header row and one data
\* row: a data row of blank cells is skipped.
ParseSheet ==
  /\ ~IsNone(parse)
  /\ IsNone(Val(parse).out)
  /\ LET headers == SheetHeaders(Val(parse).cells)
         values == Val(parse).values
         blank == \A i \in 1..Len(values) : values[i] \in {None, Str("")}
     IN parse' = Some([ Val(parse) EXCEPT !.out =
                          Some(IF blank THEN [raised |-> "", rows |-> <<>>]
                               ELSE _normalize_row(headers, values)) ])
  /\ UNCHANGED << ML_SERVICE_TOKEN, jobs, nextId, cj, taskVars, hubVars, bg,
                  callVars, blobs, creation, resultVars >>

\* ------------------------------------------------------------ specification
\* A request for a plain `def` endpoint is taken up: a worker thread is
\* free, and the request is within the requests explored.
Admitted == Threads < MaxThreads /\ Requests < MaxRequests

\* POST /internal/jobs/{job_id}/completion with any identifier, header and
\* body explored
Callback ==
  /\ Admitted
  /\ \E id \in Keys, auth \in Headers, payload \in Payloads :
       CompleteJob(id, auth, payload)

\* PUT /jobs/{job_id} by the owner
OwnerUpdate ==
  /\ Admitted
  /\ \E j \in Jobs, upd \in Updates : UpdateJob(j, upd)

\* DELETE /jobs/{job_id} by the owner
OwnerDelete ==
  /\ Admitted
  /\ \E j \in Jobs : DeleteJob(j)

\* GET /jobs/{job_id}/results by the owner
AskResults ==
  /\ Admitted
  /\ \E id \in Keys : GetResults(id)

Next ==
  \/ \E upload \in Uploads : CJ_Insert(upload)
  \/ CJ_Refresh
  \/ \E uploadOk \in BOOLEAN : CJ_Upload(uploadOk)
  \/ CJ_DropQuery
  \/ \E dropOk \in BOOLEAN : CJ_DropCommit(dropOk)
  \/ CJ_FileQuery
  \/ \E storeOk \in BOOLEAN : CJ_FileCommit(storeOk)
  \/ CJ_FileRefresh
  \/ CJ_StatusQuery
  \/ CJ_StatusCommit
  \/ CJ_Finish
  \/ \E j \in Jobs : PJ_Start(j)
  \/ \E j \in Jobs : PJ_Query(j)
  \/ \E j \in Jobs, commitOk \in BOOLEAN : PJ_Commit(j, commitOk)
  \/ \E j \in Jobs : PJ_Refresh(j)
  \/ \E j \in Jobs : PJ_Except(j)
  \/ \E j \in Jobs : PJ_Call(j)
  \/ \E j \in Jobs, outcome \in Outcomes : PJ_Response(j, outcome)
  \/ \E j \in Jobs, storeOk \in BOOLEAN : PJ_FailCommit(j, storeOk)
  \/ \E j \in Jobs : PJ_FailRefresh(j)
  \/ Callback
  \/ \E c \in calls.cb : CbCommit(c)
  \/ \E c \in calls.cb : CbRefresh(c)
  \/ OwnerUpdate
  \/ \E c \in calls.upd : UpdQuery(c)
  \/ \E c \in calls.upd : UpdCommit(c)
  \/ \E c \in calls.upd : UpdRefresh(c)
  \/ OwnerDelete
  \/ \E c \in calls.del, removeOk \in BOOLEAN : DelRemove(c, removeOk)
  \/ \E c \in calls.del : DelQuery(c)
  \/ \E c \in calls.del : DelCommit(c)
  \/ AskResults
  \/ \E c \in grCalls, fetchOk \in BOOLEAN : GetResultsFetch(c, fetchOk)
  \/ \E c \in grCalls : GetResultsParse(c)
  \/ \E c \in grCalls, tick \in Ticks : GetResultsStamp(c, tick)
  \/ \E c \in grCalls : GetResultsCommit(c)
  \/ \E c \in grCalls : GetResultsRefresh(c)
  \/ \E t \in bg : BgStart(t)
  \/ \E b \in bcasts : BcStep(b)
  \/ \E b \in bcasts : BcCleanup(b)
  \/ \E w \in Sockets, key \in Keys : WsConnect(w, key)
  \/ \E w \in Sockets : WsOpen(w)
  \/ \E w \in Sockets : PeerClose(w)
  \/ \E w \in Sockets : WsDisconnect(w)

Spec == Init /\ [][Next]_vars

\* Two channels under either identifier on one job, with its creation from
\* a stored workbook, its dispatch task and the broadcasts, no other request.
PairSockets == 1..MaxPair

\* No secret is configured.
HubInit == Idle /\ IsNone(ML_SERVICE_TOKEN)

PairNext ==
  \/ CJ_Insert("zip")
  \/ CJ_Refresh
  \/ CJ_Upload(TRUE)
  \/ CJ_FileQuery
  \/ CJ_FileCommit(TRUE)
  \/ CJ_FileRefresh
  \/ CJ_StatusQuery
  \/ CJ_StatusCommit
  \/ CJ_Finish
  \/ \E j \in Jobs : PJ_Start(j)
  \/ \E j \in Jobs : PJ_Query(j)
  \/ \E j \in Jobs, commitOk \in BOOLEAN : PJ_Commit(j, commitOk)
  \/ \E j \in Jobs : PJ_Refresh(j)
  \/ \E j \in Jobs : PJ_Call(j)
  \/ \E j \in Jobs, outcome \in Outcomes : PJ_Response(j, outcome)
  \/ \E j \in Jobs, storeOk \in BOOLEAN : PJ_FailCommit(j, storeOk)
  \/ \E j \in Jobs : PJ_FailRefresh(j)
  \/ \E t \in bg : BgStart(t)
  \/ \E b \in bcasts : BcStep(b)
  \/ \E b \in bcasts : BcCleanup(b)
  \/ \E w \in PairSockets, key \in Keys : WsAccept(w, key)
  \/ \E w \in Sockets : WsOpen(w)
  \/ \E w \in Sockets : PeerClose(w)
  \/ \E w \in Sockets : WsDisconnect(w)

PairSpec == HubInit /\ [][PairNext]_vars

\* The scheduler runs every coroutine that is ready and every worker thread:
\* create_job and a started dispatch task take their next step, a suspended
\* broadcast and an accepted channel resume, and a channel handler whose
\* receive_text has raised runs its finally clause.  The inference request
\* returns or raises within the adapter's timeout.
FairSpec ==
  /\ PairSpec
  /\ WF_vars(CJ_Refresh)
  /\ WF_vars(CJ_Upload(TRUE))
  /\ WF_vars(CJ_FileQuery)
  /\ WF_vars(CJ_FileCommit(TRUE))
  /\ WF_vars(CJ_FileRefresh)
  /\ WF_vars(CJ_StatusQuery)
  /\ WF_vars(CJ_StatusCommit)
  /\ WF_vars(CJ_Finish)
  /\ WF_vars(\E j \in Jobs : PJ_Start(j))
  /\ WF_vars(\E j \in Jobs : PJ_Query(j))
  /\ WF_vars(\E j \in Jobs, commitOk \in BOOLEAN : PJ_Commit(j, commitOk))
  /\ WF_vars(\E j \in Jobs : PJ_Refresh(j))
  /\ WF_vars(\E j \in Jobs : PJ_Call(j))
  /\ WF_vars(\E j \in Jobs, outcome \in Outcomes : PJ_Response(j, outcome))
  /\ WF_vars(\E j \in Jobs, storeOk \in BOOLEAN : PJ_FailCommit(j, storeOk))
  /\ WF_vars(\E j \in Jobs : PJ_FailRefresh(j))
  /\ WF_vars(\E t \in bg : BgStart(t))
  /\ WF_vars(\E b \in bcasts : BcStep(b))
  /\ WF_vars(\E b \in bcasts : BcCleanup(b))
  /\ WF_vars(\E w \in Sockets : WsOpen(w))
  /\ WF_vars(\E w \in Sockets : WsDisconnect(w))

\* The hub with up to MaxSockets channels on one job: a creation with a
\* stored workbook, its dispatch task and the broadcasts, no other request,
\* and the first peer may leave.
HubNext ==
  \/ CJ_Insert("zip")
  \/ CJ_Refresh
  \/ CJ_Upload(TRUE)
  \/ CJ_FileQuery
  \/ CJ_FileCommit(TRUE)
  \/ CJ_FileRefresh
  \/ CJ_StatusQuery
  \/ CJ_StatusCommit
  \/ CJ_Finish
  \/ \E j \in Jobs : PJ_Start(j)
  \/ \E j \in Jobs : PJ_Query(j)
  \/ \E j \in Jobs : PJ_Commit(j, TRUE)
  \/ \E j \in Jobs : PJ_Refresh(j)
  \/ \E j \in Jobs : PJ_Call(j)
  \/ \E j \in Jobs, outcome \in {"ok", "RequestError"} : PJ_Response(j, outcome)
  \/ \E j \in Jobs : PJ_FailCommit(j, TRUE)
  \/ \E j \in Jobs : PJ_FailRefresh(j)
  \/ \E t \in bg : BgStart(t)
  \/ \E b \in bcasts : BcStep(b)
  \/ \E b \in bcasts : BcCleanup(b)
  \/ \E w \in Sockets, j \in Jobs : WsAccept(w, UuidKey(j))
  \/ \E w \in Sockets : WsOpen(w)
  \/ PeerClose(1)
  \/ \E w \in Sockets : WsDisconnect(w)

HubSpec == HubInit /\ [][HubNext]_vars

\* The rows of a job that an earlier run of the service created from a
\* stored workbook and dispatched: the inference service accepted it
\* (processing) or the request failed (failed).
DispatchedRows ==
  { [FileInfo(NewJob, "zip") EXCEPT !.status = status] :
      status \in {"processing", "failed"} }

\* The service starts on a table that holds that job, with its upload in
\* the bucket.  No creation request is received, so that no dispatch task
\* is running.
ResultsInit ==
  /\ Fresh
  /\ parse = None
  /\ IsNone(ML_SERVICE_TOKEN)
  /\ nextId = 2
  /\ jobs \in {Put(<<>>, 1, row) : row \in DispatchedRows}
  /\ blobs = Put(<<>>, InputObject, InputBytes("zip"))

\* A callback that presents what is accepted
OpenCallback ==
  /\ Admitted
  /\ \E j \in Jobs, payload \in Payloads : CompleteJob(UuidKey(j), None, payload)

\* A results request whatever else was received
OwnerResults ==
  /\ Threads < MaxThreads
  /\ \E id \in Keys : GetResults(id)

\* The results cache of that job: callbacks and results requests, up to
\* MaxResults of them whatever else was received, and the broadcasts they
\* schedule.
ResultsNext ==
  \/ OpenCallback
  \/ \E c \in calls.cb : CbCommit(c)
  \/ \E c \in calls.cb : CbRefresh(c)
  \/ OwnerResults
  \/ \E c \in grCalls, fetchOk \in BOOLEAN : GetResultsFetch(c, fetchOk)
  \/ \E c \in grCalls : GetResultsParse(c)
  \/ \E c \in grCalls, tick \in Ticks : GetResultsStamp(c, tick)
  \/ \E c \in grCalls : GetResultsCommit(c)
  \/ \E c \in grCalls : GetResultsRefresh(c)
  \/ \E t \in bg : BgStart(t)

ResultsSpec == ResultsInit /\ [][ResultsNext]_vars

\* Terminal status texts: every word the hub knows, and two of them in
\* other letter case.  The owner's update writes any text
\* (schemas.JobUpdate).
TerminalTexts ==
  {"succeeded", "failed", "success", "completed", "SUCCESS", "Completed"}

\* PUT /jobs/{job_id} by the owner with a terminal status text
TerminalUpdate ==
  /\ Threads < MaxThreads
  /\ \E j \in Jobs, s \in TerminalTexts : UpdateJob(j, Some(s))

\* Terminal broadcasts to two channels on one job: its creation without a
\* file, for which create_job starts no dispatch task (main.py:643-646), an
\* owner's update that writes a terminal status text, the broadcasts, and
\* peers that may leave at any time.
TerminalNext ==
  \/ CJ_Insert("none")
  \/ CJ_Refresh
  \/ TerminalUpdate
  \/ \E c \in calls.upd : UpdQuery(c)
  \/ \E c \in calls.upd : UpdCommit(c)
  \/ \E c \in calls.upd : UpdRefresh(c)
  \/ \E t \in bg : BgStart(t)
  \/ \E b \in bcasts : BcStep(b)
  \/ \E b \in bcasts : BcCleanup(b)
  \/ \E w \in PairSockets, j \in Jobs : WsAccept(w, UuidKey(j))
  \/ \E w \in Sockets : WsOpen(w)
  \/ \E w \in Sockets : PeerClose(w)
  \/ \E w \in Sockets : WsDisconnect(w)

TerminalSpec == HubInit /\ [][TerminalNext]_vars

\* The parse results of the output workbook as a request at clock reading 0
\* caches them
StoredResults == Val(parse_job_xlsx(OutputBytes, 0))

\* The rows of a finished job that the table may hold when the service
\* starts: with or without a file, and with no cached results, with cached
\* results, or with a cached text that is no JSON (the column is plain
\* Text, models.py:31, which schemas.JobResponse also expects to fail to
\* parse).
StoredRows ==
  { [NewJob EXCEPT !.status = "succeeded",
                   !.file_path = path,
                   !.results_payload = text,
                   !.results_parsed_at = IF IsNone(text) THEN None ELSE Some(0)] :
      path \in {None, Some(InputObject), Some(OutputObject)},
      text \in {None, Some(Dumps(StoredResults)),
                Some(Truncated(Dumps(StoredResults)))} }

\* The bucket at that time: empty, or the job's upload, a workbook or not
StoredBlobs ==
  { <<>>, Put(<<>>, InputObject, InputBytes("single")),
    Put(<<>>, InputObject, InputBytes("zip")) }

\* The service starts on a table that holds one finished job.
CacheInit ==
  /\ Fresh
  /\ parse = None
  /\ IsNone(ML_SERVICE_TOKEN)
  /\ nextId = 2
  /\ jobs \in {Put(<<>>, 1, row) : row \in StoredRows}
  /\ blobs \in StoredBlobs

\* Results requests on that job, with the broadcasts they schedule.
CacheNext ==
  \/ OwnerResults
  \/ \E c \in grCalls, fetchOk \in BOOLEAN : GetResultsFetch(c, fetchOk)
  \/ \E c \in grCalls : GetResultsParse(c)
  \/ \E c \in grCalls, tick \in Ticks : GetResultsStamp(c, tick)
  \/ \E c \in grCalls : GetResultsCommit(c)
  \/ \E c \in grCalls : GetResultsRefresh(c)
  \/ \E t \in bg : BgStart(t)

CacheSpec == CacheInit /\ [][CacheNext]_vars

\* The parser on every sheet explored, a header row and one data row of as
\* many cells, with nothing else running.
ParserInit ==
  /\ Start
  /\ IsNone(ML_SERVICE_TOKEN)
  /\ \E n \in 1..MaxColumns :
       \E cells \in HeaderRows(n), values \in DataRows(n) :
         parse = Some([cells |-> cells, values |-> values, out |-> None])

ParserNext == ParseSheet

ParserSpec == ParserInit /\ [][ParserNext]_vars

\* ------------------------------------------------------------------ claims
\* The status transition table of the job lifecycle.
Edges ==
  { <<"pending", "queued">>, <<"queued", "processing">>,
    <<"processing", "succeeded">>, <<"processing", "failed">>,
    <<"queued", "failed">>, <<"pending", "succeeded">>, <<"pending", "failed">> }

\* The dispatch task of job j hit an error and its except clause wrote failed.
FailedLocally(j) == j \in DOMAIN jobs /\ pj[j] \in {"bcast_failed", "failed"}

\* C1: every change of a job's status, by any writer, follows an edge of the
\* transition table, and a status of succeeded or failed never changes again.
C1_StatusFollowsTable ==
  [][\A j \in DOMAIN jobs \cap DOMAIN jobs' :
        jobs'[j].status # jobs[j].status
          => <<jobs[j].status, jobs'[j].status>> \in Edges]_vars

\* A job that failed locally and was then moved to succeeded by the one
\* callback it got.
C1_TerminalLeft ==
  \E j \in Jobs :
    /\ FailedLocally(j)
    /\ nUpd = 0
    /\ Len(cbLog[j]) = 1
    /\ jobs[j].status = "succeeded"

\* C2: in every reachable state and for every job, completed_at is set if and
\* only if the status is succeeded.
C2_CompletedAtIffSucceeded ==
  \A j \in DOMAIN jobs :
    ~IsNone(jobs[j].completed_at) <=> jobs[j].status = "succeeded"

\* A job that a callback moved to succeeded, with no completion time.
C2_SucceededUnstamped ==
  \E j \in DOMAIN jobs :
    /\ nUpd = 0
    /\ cbLog[j] # <<>>
    /\ jobs[j].status = "succeeded"
    /\ IsNone(jobs[j].completed_at)

\* C3: once a completion callback has been applied to a job, no outcome of the
\* inference call changes the job's status: a step of the dispatch task after
\* the call was issued leaves the status the callback reported.
C3_CallbackAuthoritative ==
  [][\A j \in DOMAIN jobs \cap DOMAIN jobs' :
        (cbLog[j] # <<>> /\ inferCalls[j] > 0 /\ pj'[j] # pj[j])
          => jobs'[j].status = jobs[j].status]_vars

\* A job whose only callback reported succeeded and which the dispatch task's
\* except clause, entered from the inference call, has set to failed.
C3_SucceededReplaced ==
  \E j \in Jobs :
    /\ FailedLocally(j)
    /\ inferCalls[j] = 1
    /\ nUpd = 0
    /\ Len(cbLog[j]) = 1
    /\ cbLog[j][1].status = "succeeded"
    /\ jobs[j].status = "failed"

\* C4: a completion callback applied to a job whose status is succeeded or
\* failed leaves that status unchanged, whatever status it carries.
C4_TerminalStatusKept ==
  [][\A j \in DOMAIN jobs \cap DOMAIN jobs' :
        (cbLog'[j] # cbLog[j] /\ jobs[j].status \in {"succeeded", "failed"})
          => jobs'[j].status = jobs[j].status]_vars

\* A job without a file that got two callbacks with different statuses and
\* now has the status of the second.
C4_SecondStatusWins ==
  \E j \in DOMAIN jobs :
    /\ pj[j] = "none"
    /\ nUpd = 0
    /\ Len(cbLog[j]) = 2
    /\ cbLog[j][1].status # cbLog[j][2].status
    /\ jobs[j].status = cbLog[j][2].status

\* The row holds what body b reports: its status and every field it carries.
Shows(row, b) ==
  /\ row.status = b.status
  /\ ~FalsyStr(b.output_object) => row.file_path = b.output_object
  /\ ~IsNone(b.file_size) => row.file_size = b.file_size
  /\ ~FalsyStr(b.file_name) => row.file_name = b.file_name

\* C5: applying the same completion callback twice leaves the row (status,
\* file_path, file_size, file_name, completed_at, results_payload) as it is
\* after applying it once: when the body just applied is applied again to
\* the row that holds what it reports, the row stays as it is.
C5_CallbackIdempotent ==
  [][\A j \in DOMAIN jobs \cap DOMAIN jobs' :
        (/\ Len(cbLog'[j]) = Len(cbLog[j]) + 1
         /\ cbLog[j] # <<>>
         /\ cbLog'[j][Len(cbLog'[j])] = cbLog[j][Len(cbLog[j])]
         /\ Shows(jobs[j], cbLog[j][Len(cbLog[j])]))
          => jobs'[j] = jobs[j]]_vars

\* The same callback, carrying every optional field, was applied twice.
C5_AppliedTwice ==
  \E j \in DOMAIN jobs :
    /\ Len(cbLog[j]) = 2
    /\ cbLog[j][1] = cbLog[j][2]
    /\ ~IsNone(cbLog[j][2].file_size)
    /\ jobs[j].file_size = cbLog[j][2].file_size

\* C6: with a secret configured, a callback whose Authorization header is
\* missing or does not present the secret is answered 401 and changes no row
\* and schedules no broadcast: it is refused when it is received, leaving
\* nothing to run, and every callback that goes on to write presented the
\* secret.
C6_WrongTokenRejected ==
  [][/\ (nCb' # nCb /\ ~Falsy(ML_SERVICE_TOKEN) /\ ~cbAns'[nCb'].secret)
          => /\ cbAns'[nCb'].code = 401
             /\ jobs' = jobs /\ bg' = bg /\ calls' = calls
     /\ \A c \in calls.cb : ~Falsy(ML_SERVICE_TOKEN) => cbAns[c.n].secret]_vars

\* A callback without the secret was refused while a job existed.
C6_Refused ==
  /\ ~Falsy(ML_SERVICE_TOKEN)
  /\ DOMAIN jobs # {}
  /\ \E n \in 1..Len(cbAns) : ~cbAns[n].secret /\ cbAns[n].code = 401

\* The dispatch task of job j has ended with an error.
Errored(j) == pj[j] \in {"bcast_failed", "failed", "crashed"}

\* C7: whenever a step of the dispatch task fails, that step leaves the job
\* with status failed, and the broadcast of the failed snapshot is then made
\* and returns: no job whose dispatch task ended with an error stays queued
\* or processing.
C7_ErrorLeadsToFailed ==
  /\ [][\A j \in Jobs :
          (~Errored(j) /\ Errored(j)')
            => (j \in DOMAIN jobs' /\ jobs'[j].status = "failed")]_vars
  /\ \A j \in Jobs :
       (pj[j] \in {"bcast_failed", "crashed"}) ~> (pj[j] = "failed")

\* A dispatch task that ended in its except clause, the job still processing.
C7_StuckProcessing ==
  \E j \in DOMAIN jobs :
    /\ pj[j] = "crashed"
    /\ inferCalls[j] = 1
    /\ nCb = 0 /\ nUpd = 0
    /\ jobs[j].status = "processing"

\* How many failed snapshots a socket was sent.
FailedCount(w) == Cardinality({i \in 1..Len(ws[w].inbox) : ws[w].inbox[i] = "failed"})

\* C8: when the inference call raised, no callback (and no owner update) came
\* and all broadcasts are over, the job is failed and every socket that was
\* subscribed to it when the call raised was sent exactly one failed
\* snapshot, unless its peer left before the send.
C8_OneFailedSnapshot ==
  \A j \in DOMAIN jobs :
    (/\ pj[j] \in {"failed", "crashed"}
     /\ inferCalls[j] = 1
     /\ nCb = 0 /\ nUpd = 0
     /\ bcasts = {} /\ bg = {})
      => /\ jobs[j].status = "failed"
         /\ \A w \in failSubs[j] :
              \/ FailedCount(w) = 1
              \/ FailedCount(w) = 0 /\ ws[w].peerClosed

\* A socket opened with the numeric id before the call raised, still open
\* after the failed broadcast, that was sent no failed snapshot.
C8_NumericSubscriberMissed ==
  \E j \in DOMAIN jobs, w \in Sockets :
    /\ pj[j] = "failed"
    /\ inferCalls[j] = 1
    /\ nCb = 0 /\ nUpd = 0
    /\ bcasts = {} /\ bg = {}
    /\ w \in failSubs[j]
    /\ ws[w].key = NumKey(j)
    /\ ws[w].pc = "open" /\ ~ws[w].peerClosed
    /\ FailedCount(w) = 0

\* C9: the inference call of a job is issued only when the broadcast of its
\* processing snapshot has returned, every send to the sockets it had
\* snapshotted attempted.
C9_BroadcastBeforeCall ==
  \A j \in Jobs :
    inferCalls[j] > 0
      => ~\E b \in bcasts : b.id = <<"pj", j>> /\ b.status = "processing"

\* The call was issued after two sockets that had seen the job queued were
\* sent the processing snapshot.
C9_CalledAfterSends ==
  \E j \in Jobs, v, w \in Sockets :
    /\ inferCalls[j] = 1
    /\ v # w
    /\ ws[v].inbox = <<"queued", "processing">>
    /\ ws[w].inbox = <<"queued", "processing">>

\* A broadcast of status s for job j is posted in this step by a completion
\* callback (scheduled as a background task) or by the dispatch task
\* (started and awaited).
Posted(j, s) ==
  \/ \E t \in bg' \ bg :
       t.id[1] = "cb" /\ t.key = _job_identifier(j) /\ t.status = s
  \/ \E b \in bcasts' :
       /\ b.id = <<"pj", j>> /\ b.status = s
       /\ ~\E c \in bcasts : c.id = b.id

\* C10: a broadcast carrying a terminal status of a job, from the dispatch
\* task or from a completion callback, is posted only once the store holds
\* that status for the job: the row read after the commit is what is posted.
C10_TerminalAfterCommit ==
  [][\A j \in Jobs, s \in {"succeeded", "failed"} :
        Posted(j, s) => (j \in DOMAIN jobs' /\ jobs'[j].status = s)]_vars

\* A socket that saw the job processing was sent the failed snapshot of the
\* dispatch task, and the store holds failed.
C10_FailedDelivered ==
  \E j \in DOMAIN jobs, w \in Sockets :
    /\ pj[j] \in {"bcast_failed", "failed"}
    /\ nCb = 0 /\ nUpd = 0
    /\ jobs[j].status = "failed"
    /\ ws[w].inbox = <<"processing", "failed">>

\* Broadcast b returns in this step.
Finishing(b) == b \in bcasts /\ ~\E c \in bcasts' : c.id = b.id

\* The last message socket w was sent.
LastSent(w) == ws[w].inbox[Len(ws[w].inbox)]

\* C11 as stated: when a broadcast whose status is terminal (synonyms and
\* letter case included) returns, every connection of its snapshot has been
\* closed by the hub and is no longer registered under the broadcast's key.
C11_TerminalHubClosesAll ==
  [][\A b \in bcasts :
        (Finishing(b) /\ Terminal(b.status))
          => \A i \in 1..Len(b.conns) :
               /\ b.conns[i] \notin Get(connections', b.key)
               /\ ws'[b.conns[i]].srvClosed]_vars

\* C11: when a broadcast whose status is terminal (synonyms and letter case
\* included) returns, every connection of its snapshot is no longer
\* registered under the broadcast's key, and has been closed by the hub
\* unless its peer had closed it, in which case the send raised and the hub
\* only removed it.
C11_TerminalClosesAll ==
  [][\A b \in bcasts :
        (Finishing(b) /\ Terminal(b.status))
          => \A i \in 1..Len(b.conns) :
               /\ b.conns[i] \notin Get(connections', b.key)
               /\ ws'[b.conns[i]].srvClosed \/ ws'[b.conns[i]].peerClosed]_vars

\* Two live sockets were sent a terminal snapshot whose status is a synonym
\* in capital letters and were closed by the hub, and the hub has dropped
\* them before their handlers ran disconnect.
C11_BothClosedByHub ==
  /\ bcasts = {}
  /\ connections = <<>>
  /\ \E v, w \in Sockets :
       /\ v # w
       /\ \A u \in {v, w} :
            /\ ws[u].pc = "open"
            /\ ws[u].srvClosed /\ ~ws[u].peerClosed
            /\ LastSent(u) = "SUCCESS"
            /\ Terminal(LastSent(u))

\* C12: a subscriber that opens the channel of a job whose status is already
\* terminal is sent that snapshot and the server then closes the channel: the
\* connection does not stay open.
C12_ClosedAfterTerminalSnapshot ==
  \A w \in Sockets :
    (ws[w].pc = "open" /\ Terminal(ws[w].inbox[1])) ~> ws[w].srvClosed

\* A socket that was sent a terminal first snapshot is still open and
\* registered with nothing left to run.
C12_StaysOpen ==
  \E w \in Sockets :
    /\ ws[w].pc = "open"
    /\ ws[w].inbox = <<"failed">>
    /\ ~ws[w].srvClosed /\ ~ws[w].peerClosed
    /\ w \in Get(connections, ws[w].key)
    /\ bcasts = {} /\ bg = {}
    /\ \A j \in Jobs : pj[j] \in {"none", "failed", "crashed", "returned"}

\* In this step socket w is sent status s by broadcast id, or is taken into
\* that broadcast's snapshot.
Covered(w, id, s) ==
  \/ ws'[w].inbox = Append(ws[w].inbox, s)
  \/ \E b \in bcasts' : b.id = id /\ \E i \in 1..Len(b.conns) : b.conns[i] = w

\* process_job starts a broadcast for job j in this step: of the row as
\* re-read after the commit of processing, or after the commit of failed.
PjBroadcasts(j) ==
  \/ pj[j] = "committed" /\ pj'[j] \in {"bcast", "ready"}
  \/ pj[j] = "fcommitted" /\ pj'[j] \in {"bcast_failed", "failed"}

\* C13: a subscriber of a job that is connected when a status change of the
\* job is broadcast (scheduled broadcasts of creation, callback and owner
\* update; the awaited broadcasts of process_job) is in that broadcast's
\* snapshot, and a broadcast sends its message to every snapshotted
\* connection that is still live.
C13_SubscribersGetChanges ==
  [][/\ \A j \in DOMAIN jobs :
          /\ \A t \in bg \ bg' :
               t.key = _job_identifier(j)
                 => \A w \in Subscribers(j) : Covered(w, t.id, t.status)
          /\ PjBroadcasts(j)
               => \A w \in Subscribers(j) : Covered(w, <<"pj", j>>, jobs[j].status)
     /\ \A b \in bcasts :
          (/\ b \notin bcasts'
           /\ b.i <= Len(b.conns) /\ b.phase = "send"
           /\ CanSend(ws, b.conns[b.i]))
            => ws'[b.conns[b.i]].inbox = Append(ws[b.conns[b.i]].inbox, b.status)]_vars

\* A live socket opened with the numeric id while the job was queued has
\* been sent nothing since, although the job is processing and every
\* broadcast has returned.
C13_ProcessingMissed ==
  \E j \in DOMAIN jobs, w \in Sockets :
    /\ ws[w].key = NumKey(j)
    /\ w \in Subscribers(j)
    /\ ws[w].inbox = <<"queued">>
    /\ jobs[j].status = "processing"
    /\ pj[j] \in {"ready", "inflight"}
    /\ bcasts = {} /\ bg = {}

\* C14: the channel is one stream per job whichever accepted identifier
\* opened it: of two live subscribers of the same job, each broadcast for the
\* job reaches both or neither.
C14_OneStreamPerJob ==
  [][\A j \in DOMAIN jobs : \A w1, w2 \in Subscribers(j) :
        /\ \A t \in bg \ bg' :
             t.key = _job_identifier(j)
               => (Covered(w1, t.id, t.status) <=> Covered(w2, t.id, t.status))
        /\ PjBroadcasts(j)
             => (Covered(w1, <<"pj", j>>, jobs[j].status)
                   <=> Covered(w2, <<"pj", j>>, jobs[j].status))]_vars

\* Two live sockets opened on the queued job, one with the uuid and one with
\* the numeric id: only the first was sent the processing snapshot.
C14_NumericLeftOut ==
  \E j \in DOMAIN jobs, w1, w2 \in Sockets :
    /\ {w1, w2} \subseteq Subscribers(j)
    /\ ws[w1].key = UuidKey(j) /\ ws[w2].key = NumKey(j)
    /\ ws[w1].inbox = <<"queued", "processing">>
    /\ ws[w2].inbox = <<"queued">>
    /\ bcasts = {} /\ bg = {}

\* The messages socket w has been sent so far, after this step.
SentAfter(w) == {ws'[w].inbox[i] : i \in 1..Len(ws'[w].inbox)}

\* C15: when a broadcast returns, terminal or not, every connection of its
\* snapshot whose send failed is out of the registry, and every other one was
\* sent the message: a failed send stops nothing.
C15_SendFailureRemoves ==
  [][\A b \in bcasts :
        Finishing(b)
          => \A i \in 1..Len(b.conns) :
               IF b.conns[i] \in b.disc
               THEN b.conns[i] \notin Get(connections', b.key)
               ELSE b.status \in SentAfter(b.conns[i])]_vars

\* A broadcast that is not terminal failed on its first connection, went on
\* to send to the second and is about to remove the first.
C15_FailedThenSent ==
  \E b \in bcasts :
    /\ ~Terminal(b.status)
    /\ Len(b.conns) = 2 /\ b.i = 3
    /\ b.disc = {b.conns[1]}
    /\ b.conns[1] \in Get(connections, b.key)
    /\ LastSent(b.conns[2]) = b.status
    /\ Len(ws[b.conns[2]].inbox) = 2

\* Socket w is connected and nothing has ended it: no end has closed.
Live(w) == ws[w].pc = "open" /\ ~ws[w].srvClosed /\ ~ws[w].peerClosed

\* C16: no registration is lost: a connection whose connect has completed
\* and that has not been disconnected, has not lost its peer and was not
\* closed by a terminal broadcast is in the set of the key it registered
\* under, whatever connects, disconnects and broadcasts interleave.
C16_NoLostRegistration ==
  \A w \in Sockets : Live(w) => w \in Get(connections, ws[w].key)

\* A socket connected under a key after a broadcast on that key took its
\* snapshot and before that broadcast removes its dead connection.
C16_ConnectedDuringBroadcast ==
  \E b \in bcasts, w \in Sockets :
    /\ b.i > Len(b.conns) /\ b.disc # {}
    /\ \A i \in 1..Len(b.conns) : b.conns[i] # w
    /\ Live(w)
    /\ ws[w].key = b.key
    /\ w \in Get(connections, b.key)

\* C17: a broadcast holds the hub lock only for its snapshot and for the
\* removal of dead connections: while one is suspended in a send or a close
\* the lock is free, so whenever the event loop is given to it a handler
\* whose connection has ended can run disconnect and an accepted connection
\* can be registered.
C17_LockFreeDuringSends ==
  (\E b \in bcasts : b.i <= Len(b.conns))
    => /\ IsNone(lock)
       /\ LoopFree
            => \A w \in Sockets :
                 /\ (ws[w].pc = "open" /\ (ws[w].peerClosed \/ ws[w].srvClosed))
                      => ENABLED WsDisconnect(w)
                 /\ ws[w].pc = "accepted" => ENABLED WsOpen(w)

\* A socket was registered under a key while a broadcast on that key, which
\* had not snapshotted it, was suspended between a send and the close.
C17_ConnectedDuringSend ==
  \E b \in bcasts, w \in Sockets :
    /\ b.i <= Len(b.conns)
    /\ \A i \in 1..Len(b.conns) : b.conns[i] # w
    /\ Live(w)
    /\ ws[w].key = b.key
    /\ w \in Get(connections, b.key)

\* C18: between hub operations the registry maps no key to an empty set:
\* every key present has at least one connection.
C18_NoEmptySets ==
  \A key \in DOMAIN connections : connections[key] # {}

\* The last connection of a key has been disconnected by its handler, a
\* broadcast on the job has run since, and the key is gone from the map.
C18_KeyPruned ==
  \E w \in Sockets :
    /\ ws[w].pc = "gone"
    /\ ws[w].key \notin DOMAIN connections
    /\ \A v \in Sockets : v # w => ws[v].pc = "idle"
    /\ bcasts = {} /\ bg = {}
    /\ \E j \in Jobs : pj[j] = "failed"

\* Nothing of the creation of job j is left: no row, no broadcast of the
\* creation scheduled or running, no processing task and no inference call.
NoTrace(j) ==
  /\ j \notin DOMAIN jobs
  /\ \A t \in bg \cup bcasts : t.id # <<"create", j>>
  /\ pj[j] = "none"
  /\ inferCalls[j] = 0

\* C19: a creation whose upload is classified as an archive and fails the
\* archive validation is answered with the validation error 400, writes
\* nothing to the Blob Store, schedules no broadcast and starts no
\* processing task, and leaves no row -- at the request and ever after.
C19_BadArchiveLeavesNothing ==
  [][\A j \in Jobs :
       /\ (/\ ~IsNone(cj) /\ cj' # cj
           /\ Val(cj).j = j /\ Val(cj).pc = "loaded" /\ Val(cj).upload = "badzip")
            => /\ ~IsNone(cj') /\ Val(cj').pc = "refused" /\ Val(cj').put = "none"
               /\ blobs' = blobs /\ bg' = bg /\ pj' = pj
       /\ (/\ ~IsNone(cj) /\ IsNone(cj')
           /\ Val(cj).j = j /\ Val(cj).pc \in {"refused", "dropping"}
           /\ Val(cj).upload = "badzip")
            => /\ ~IsNone(creation[j]')
               /\ Val(creation[j]').code = 400
               /\ Val(creation[j]').put = "none"
               /\ blobs' = blobs /\ bg' = bg /\ pj' = pj
       /\ (/\ ~IsNone(creation[j]')
           /\ Val(creation[j]').upload = "badzip"
           /\ Val(creation[j]').code = 400)
            => NoTrace(j)']_vars

\* A creation request carrying an invalid archive was answered with a
\* server error and its row is still stored, with no other request received.
C19_RefusedArchiveRowLeft ==
  \E j \in DOMAIN jobs :
    /\ ~IsNone(creation[j])
    /\ Val(creation[j]).upload = "badzip"
    /\ Val(creation[j]).code = 500
    /\ Val(creation[j]).put = "none"
    /\ Requests = 0

\* C20: a creation whose Blob Store write fails is answered with the server
\* error 500, leaves no row and no object, schedules no broadcast and starts
\* no processing task -- at the request and ever after.
C20_FailedUploadLeavesNothing ==
  [][\A j \in Jobs :
       (~IsNone(creation[j]') /\ Val(creation[j]').put = "failed")
         => /\ Val(creation[j]').code = 500
            /\ Val(creation[j]').upload \in {"single", "zip", "emptyzip"}
            /\ NoTrace(j)'
            /\ IsNone(creation[j]) => (blobs' = blobs /\ bg' = bg /\ pj' = pj)]_vars

\* A creation request has lost its upload and was answered with a server
\* error, and its row is still stored, with no other request received.
C20_FailedUploadRowLeft ==
  \E j \in DOMAIN jobs :
    /\ ~IsNone(creation[j])
    /\ Val(creation[j]).put = "failed"
    /\ Val(creation[j]).upload = "zip"
    /\ Val(creation[j]).code = 500
    /\ Requests = 0

\* The body of the callback just applied to job j
LastBody(j) == cbLog[j][Len(cbLog[j])]

\* C21: an accepted completion callback with status succeeded, an output
\* object and a file size, applied to a job in processing, leaves the row with
\* that file path, that size, status succeeded and a completion time.
C21_SucceededCallbackStored ==
  [][\A j \in DOMAIN jobs \cap DOMAIN jobs' :
       (/\ Len(cbLog[j]') = Len(cbLog[j]) + 1
        /\ jobs[j].status = "processing"
        /\ LastBody(j)'.status = "succeeded"
        /\ LastBody(j)'.output_object = Some(OutputObject)
        /\ LastBody(j)'.file_size = Some(4096))
         => /\ jobs'[j].file_path = Some(OutputObject)
            /\ jobs'[j].file_size = Some(4096)
            /\ jobs'[j].status = "succeeded"
            /\ ~IsNone(jobs'[j].completed_at)]_vars

\* The one callback of a job reported succeeded with an output object and a
\* size while the inference call was in flight, and the row holds them.
C21_OutputRecorded ==
  \E j \in DOMAIN jobs :
    /\ pj[j] = "inflight"
    /\ nUpd = 0
    /\ Len(cbLog[j]) = 1
    /\ cbLog[j][1].status = "succeeded"
    /\ cbLog[j][1].output_object = Some(OutputObject)
    /\ jobs[j].status = "succeeded"
    /\ jobs[j].file_path = Some(OutputObject)
    /\ jobs[j].file_size = Some(4096)

\* The status values of the lifecycle
Lifecycle == {"pending", "queued", "processing", "succeeded", "failed"}

\* C22: the stored status of every job is one of pending, queued, processing,
\* succeeded, failed: a synonym supplied by a callback or an update is stored
\* as succeeded.
C22_StoredStatusNormalized ==
  \A j \in DOMAIN jobs : jobs[j].status \in Lifecycle

\* An owner update has supplied the synonym completed for a job that had no
\* callback, and the row holds the text as supplied.
C22_SynonymStored ==
  \E j \in DOMAIN jobs :
    /\ nUpd = 1
    /\ cbLog[j] = <<>>
    /\ jobs[j].status = "completed"

\* The records of a results mapping
Records(results) == results.rows

\* C23: a results request that has parsed the stored file and is answered
\* answers fresh and has persisted the parsed payload; every request
\* received after the first fresh answer for the job is answered from the
\* cache (it does not parse again), tagged cached, with the records of that
\* first answer, which are the records the cache holds from then on.
C23_FreshThenCached ==
  [][\A j \in Jobs :
       /\ (\E c \in grCalls : c.job = j /\ c.pc = "committed" /\ c \notin grCalls'
                               /\ Val(grLast').code = 200)
            => /\ Val(grLast').source = "fresh"
               /\ jobs'[j].results_payload = Some(Dumps(Val(Val(grLast').results)))
       /\ (~IsNone(firstFresh[j]) /\ nRes' = nRes + 1)
            => /\ \A c \in grCalls' \ grCalls : c.job # j
               /\ (Val(grLast').call = nRes' /\ Val(grLast').job = j)
                    => /\ Val(grLast').code = 200
                       /\ Val(grLast').source = "cached"
                       /\ Records(Val(Val(grLast').results))
                            = Records(Val(firstFresh[j]))
       /\ (~IsNone(firstFresh[j]') /\ j \in DOMAIN jobs')
            => Records(Val(Loads(Val(jobs'[j].results_payload))))
                 = Records(Val(firstFresh[j]'))]_vars

\* The second results request of a job was received after the first had been
\* answered fresh, and was answered from the cache.
C23_SecondCached ==
  \E j \in DOMAIN jobs :
    /\ ~IsNone(firstFresh[j])
    /\ nRes = 2
    /\ grCalls = {}
    /\ ~IsNone(grLast)
    /\ Val(grLast).call = 2
    /\ Val(grLast).job = j
    /\ Val(grLast).source = "cached"
    /\ now = 1

\* C24: two results requests that both saw a cache miss for the same job and
\* parsed the same stored file have produced identical output, and once a
\* request has committed, the cached payload equals the output of every
\* request that parsed that file.
C24_ParsesIdentical ==
  /\ \A c1, c2 \in grCalls :
       (/\ c1.job = c2.job
        /\ ~IsNone(c1.parsed) /\ ~IsNone(c2.parsed)
        /\ Records(Val(c1.parsed)) = Records(Val(c2.parsed)))
         => c1.parsed = c2.parsed
  /\ \A c \in grCalls :
       (/\ c.job \in DOMAIN jobs
        /\ ~IsNone(c.parsed)
        /\ ~IsNone(jobs[c.job].results_payload)
        /\ Records(Val(Loads(Val(jobs[c.job].results_payload))))
             = Records(Val(c.parsed)))
         => Val(Loads(Val(jobs[c.job].results_payload))) = Val(c.parsed)

\* Two results requests of one job have both missed the cache and parsed the
\* same stored file; neither has committed.
C24_BothMissed ==
  \E c1, c2 \in grCalls :
    /\ c1.call # c2.call
    /\ c1.job = c2.job
    /\ c1.pc = "parsed" /\ c2.pc = "parsed"
    /\ Records(Val(c1.parsed)) = Records(Val(c2.parsed))
    /\ c1.job \in DOMAIN jobs
    /\ IsNone(jobs[c1.job].results_payload)

\* C25: for every job the archive listing zip_contents is recorded if and
\* only if the file type is the archive type, an accepted archive with no
\* entry included.
C25_ManifestIffArchive ==
  \A j \in DOMAIN jobs :
    ~IsNone(jobs[j].zip_contents) <=> jobs[j].file_type = "zip"

\* An archive with no entry was accepted and stored, and its job queued.
C25_EmptyArchiveAccepted ==
  \E j \in DOMAIN jobs :
    /\ ~IsNone(creation[j])
    /\ Val(creation[j]).upload = "emptyzip"
    /\ Val(creation[j]).code = 200
    /\ jobs[j].file_type = "zip"
    /\ jobs[j].file_path = Some(InputObject)

\* Job j was created by a request that carried no file.
CreatedWithoutFile(j) ==
  /\ j \in DOMAIN jobs
  /\ ~IsNone(creation[j])
  /\ Val(creation[j]).upload = "none"

\* C26: a job created without a file never has status processing or queued,
\* no dispatch task is started for it and no inference call is issued for it.
C26_NoFileNeverProcessing ==
  \A j \in Jobs :
    CreatedWithoutFile(j)
      => /\ jobs[j].status \notin {"processing", "queued"}
         /\ pj[j] = "none"
         /\ inferCalls[j] = 0

\* A job created without a file has been set to processing by an owner
\* update; no dispatch task exists for it.
C26_OwnerSetProcessing ==
  \E j \in Jobs :
    /\ CreatedWithoutFile(j)
    /\ nUpd = 1
    /\ cbLog[j] = <<>>
    /\ jobs[j].status = "processing"
    /\ pj[j] = "none"

\* C27: the inference request is issued at most once per job, and no step
\* taken once the job's dispatch task has ended issues it again.
C27_InferenceAtMostOnce ==
  [][\A j \in Jobs :
       /\ inferCalls[j]' <= 1
       /\ pj[j] \in {"returned", "failed", "crashed"}
            => inferCalls[j]' = inferCalls[j]]_vars

\* The inference call of a job failed, the job was set to failed, a failed
\* callback and one more request followed, and the call was issued once.
C27_NoRetryAfterFailure ==
  \E j \in Jobs :
    /\ FailedLocally(j)
    /\ pj[j] = "failed"
    /\ inferCalls[j] = 1
    /\ Len(cbLog[j]) = 1
    /\ cbLog[j][1].status = "failed"
    /\ nCb + nUpd + nRes = 2

\* The file fields of a row
FileFields(row) ==
  << row.file_name, row.file_size, row.file_path, row.file_type >>

\* C28: once a job's status is processing, succeeded or failed, a step that
\* changes its file name, size, path or type is the application of a
\* completion callback: every other operation leaves them as they are.
C28_FileFieldsFrozen ==
  [][\A j \in DOMAIN jobs \cap DOMAIN jobs' :
       (/\ jobs[j].status \in {"processing", "succeeded", "failed"}
        /\ FileFields(jobs'[j]) # FileFields(jobs[j]))
         => Len(cbLog[j]') = Len(cbLog[j]) + 1]_vars

\* The creation request, still running, has written the fields of its
\* upload over the output a succeeded callback had recorded: the row is
\* succeeded and its path is that of the input again.
C28_AttachedAfterCallback ==
  \E j \in DOMAIN jobs :
    /\ ~IsNone(cj)
    /\ Val(cj).j = j
    /\ nUpd = 0
    /\ Len(cbLog[j]) = 1
    /\ cbLog[j][1].status = "succeeded"
    /\ cbLog[j][1].output_object = Some(OutputObject)
    /\ jobs[j].status = "succeeded"
    /\ jobs[j].file_path = Some(InputObject)

\* C29: a results request that ends in an error (no row, no file path, a
\* failed fetch, bytes that are no workbook, a cached text that is no JSON)
\* leaves every row as it was, results payload, its timestamp and status
\* included, schedules no broadcast and leaves nothing to commit.
C29_FailedResultsChangeNothing ==
  [][(/\ ~IsNone(grLast')
      /\ grLast' # grLast
      /\ Val(grLast').code # 200
      /\ \/ nRes' = nRes + 1
         \/ \E c \in grCalls : /\ c.call = Val(grLast').call
                                /\ c.pc \in {"looked", "fetched"})
       => /\ jobs' = jobs
          /\ bg' = bg
          /\ \A c \in grCalls' : c.call # Val(grLast').call]_vars

\* A results request on a job whose cached text is no JSON was answered with
\* a server error, after an earlier request on it.
C29_CorruptCacheRefused ==
  \E j \in DOMAIN jobs :
    /\ ~IsNone(grLast)
    /\ Val(grLast).job = j
    /\ Val(grLast).call = 2
    /\ Val(grLast).code = 500
    /\ ~IsNone(jobs[j].results_payload)
    /\ IsNone(Loads(Val(jobs[j].results_payload)))
    /\ jobs[j].results_parsed_at = Some(0)
    /\ bg = {}

\* C30: a creation request that fails leaves in the Blob Store only what was
\* there before it: when it fails after its upload was stored, the object is
\* deleted again.
C30_FailedCreationLeavesNoBlob ==
  [][\A j \in Jobs :
       (/\ IsNone(creation[j])
        /\ ~IsNone(creation[j]')
        /\ Val(creation[j]').code # 200
        /\ Val(creation[j]').put = "ok")
         => InputObject \notin DOMAIN blobs']_vars

\* A creation request stored its upload and then failed, on the commit of
\* the file fields or on a later round trip: the object is still stored.
C30_FailedAfterUpload ==
  \E j \in Jobs :
    /\ ~IsNone(creation[j])
    /\ Val(creation[j]).put = "ok"
    /\ Val(creation[j]).code = 500
    /\ nextId = j + 1
    /\ nDel = 0
    /\ InputObject \in DOMAIN blobs

\* C31: the dispatch task never sets a job to succeeded.  A step in which the
\* inference call returns a result leaves the row as it was, and every step
\* that moves a job to succeeded is the commit of a completion callback or
\* of an owner update.
C31_DispatchNeverSucceeds ==
  [][\A j \in DOMAIN jobs \cap DOMAIN jobs' :
        /\ (pj[j] = "inflight" /\ pj'[j] = "returned") => jobs'[j] = jobs[j]
        /\ (jobs[j].status # "succeeded" /\ jobs'[j].status = "succeeded")
             => \/ Len(cbLog'[j]) = Len(cbLog[j]) + 1
                \/ \E c \in calls.upd :
                     c.j = j /\ c.pc = "found" /\ c \notin calls'.upd]_vars

\* The inference call of a job returned a result, no callback and no owner
\* update came, and the job is still processing.
C31_ReturnedStillProcessing ==
  \E j \in DOMAIN jobs :
    /\ pj[j] = "returned"
    /\ inferCalls[j] = 1
    /\ nCb = 0 /\ nUpd = 0
    /\ jobs[j].status = "processing"

\* C33: the inference request is issued only for a job that is in the Job
\* Store with status processing at the moment of the call: every step that
\* issues the request for job j finds the row of j there, with that status.
C33_CallOnlyForProcessingJob ==
  [][\A j \in Jobs :
        inferCalls'[j] > inferCalls[j]
          => (j \in DOMAIN jobs /\ jobs[j].status = "processing")]_vars

\* The inference request of a deleted job is in flight: the deletion came
\* before the dispatch task ran, which wrote and broadcast nothing.
C33_CalledAfterDelete ==
  \E j \in Jobs :
    /\ j \notin DOMAIN jobs
    /\ nDel = 1
    /\ delLast = Some(200)
    /\ pj[j] = "inflight"
    /\ inferCalls[j] = 1
    /\ IsNone(pjRow[j])

\* C32: the snapshots sent to one subscriber are in commit order: no socket
\* is sent a snapshot with status queued after a snapshot with status
\* processing or with a terminal status.
C32_QueuedNeverAfterProcessing ==
  \A w \in Sockets :
    \A a, b \in 1..Len(ws[w].inbox) :
      (a < b /\ ws[w].inbox[b] = "queued")
        => ~(ws[w].inbox[a] = "processing" \/ Terminal(ws[w].inbox[a]))

\* A subscriber that was sent processing and then queued, with no callback,
\* owner update or deletion received: the queued snapshot scheduled by
\* create_job was broadcast after the dispatch task had committed processing.
C32_QueuedAfterProcessing ==
  \E w \in Sockets :
    /\ nCb = 0 /\ nUpd = 0 /\ nDel = 0
    /\ ws[w].key = UuidKey(1)
    /\ ws[w].inbox = <<"processing", "queued">>

\* C34: a broadcast affects only the connections of the snapshot it took.
\* When a suspended broadcast resumes -- for a send, a close or the removal
\* of its dead connections -- every socket outside its snapshot keeps its
\* messages, stays as open or closed as it was and stays in the sets of the
\* registry it was in, also when the message is terminal.
C34_BroadcastTouchesOnlySnapshot ==
  [][\A b \in bcasts \ bcasts' :
        \A w \in Sockets :
          (\A i \in 1..Len(b.conns) : b.conns[i] # w)
            => /\ ws'[w] = ws[w]
               /\ \A key \in Keys :
                    (w \in Get(connections, key)) <=> (w \in Get(connections', key))]_vars

\* A terminal broadcast has sent to and closed the two connections of its
\* snapshot and is about to remove them; a third socket, registered under
\* the same key after the snapshot, is connected, registered, and has only
\* the snapshot its own handler sent.
C34_LateSocketUntouched ==
  \E b \in bcasts, w \in Sockets :
    /\ Terminal(b.status)
    /\ Len(b.conns) = 2 /\ b.i = 3
    /\ b.conns[1] # w /\ b.conns[2] # w
    /\ ws[b.conns[1]].srvClosed /\ ws[b.conns[2]].srvClosed
    /\ b.disc = {b.conns[1], b.conns[2]}
    /\ CanSend(ws, w)
    /\ ws[w].key = b.key
    /\ w \in Get(connections, b.key)
    /\ Len(ws[w].inbox) = 1

\* No completion callback applied to job j supplied an output object.
NoOutput(j) ==
  \A i \in 1..Len(cbLog[j]) : FalsyStr(cbLog[j][i].output_object)

\* C35: only an output artifact is parsed and cached.  As long as no
\* completion callback has supplied an output object for a job, every
\* results request for it is answered 'not ready' (404), none has fetched and
\* parsed its file, and its row caches no payload.
C35_OnlyOutputParsed ==
  \A j \in DOMAIN jobs :
    NoOutput(j)
      => /\ IsNone(jobs[j].results_payload)
         /\ \A c \in grCalls : c.job = j => IsNone(c.parsed)
         /\ (~IsNone(grLast) /\ Val(grLast).job = j) => Val(grLast).code = 404

\* A job that got no callback at all: a results request was answered 200,
\* tagged fresh, with the rows of the uploaded workbook, which the row now
\* caches.
C35_InputParsedAndCached ==
  \E j \in DOMAIN jobs :
    /\ nCb = 0 /\ nUpd = 0
    /\ jobs[j].file_path = Some(InputObject)
    /\ ~IsNone(grLast)
    /\ Val(grLast).job = j
    /\ Val(grLast).code = 200
    /\ Val(grLast).source = "fresh"
    /\ Val(Val(grLast).results).rows = InputBytes("zip").rows
    /\ jobs[j].results_payload = Some(Dumps(Val(Val(grLast).results)))

\* The rows of the artifact stored under a row's file_path.
ArtifactRows(row) ==
  Val(get_file_from_minio(blobs, Val(row.file_path), TRUE)).rows

\* C36: the results cache corresponds to the job's current file_path: a
\* results request that is answered from the cache returns the rows of the
\* artifact the row names at that moment, never those parsed from an
\* artifact a completion callback has since replaced.
C36_CacheFollowsFilePath ==
  [][(/\ nRes' = nRes + 1
      /\ ~IsNone(grLast')
      /\ Val(grLast').call = nRes'
      /\ Val(grLast').source = "cached")
        => Val(Val(grLast').results).rows = ArtifactRows(jobs[Val(grLast').job])]_vars

\* The second results request of a job was answered from the cache with the
\* rows of the uploaded workbook although the one callback, which came
\* before it (a callback is explored only within MaxRequests), had set
\* file_path to the output object.
C36_StaleCacheServed ==
  \E j \in DOMAIN jobs :
    /\ nRes = 2 /\ nCb = 1 /\ nUpd = 0
    /\ jobs[j].file_path = Some(OutputObject)
    /\ ~IsNone(grLast)
    /\ Val(grLast).call = 2
    /\ Val(grLast).job = j
    /\ Val(grLast).source = "cached"
    /\ Val(Val(grLast).results).rows = InputBytes("zip").rows

\* The fields that are read from a named column alone, and what each makes
\* of the cell
ColumnFields ==
  {"study_uid", "series_uid", "probability_of_pathology", "pathology",
   "time_of_processing"}

Converted(f, cell) ==
  CASE f = "probability_of_pathology" -> _to_float(cell)
    [] f = "pathology" -> PathologyOf(cell)
    [] OTHER -> _to_str(cell)

\* The columns whose header, letter case apart, is a name of field f.
Matching(headers, f) ==
  { i \in 1..Len(headers) :
      \E a \in 1..Len(Aliases[f]) : Lower(headers[i]) = Aliases[f][a] }

\* C37: for every header row, blank and duplicate headers included, the
\* parse raises no IndexError and the value taken for a field is that of the
\* cell of a column whose header, letter case apart, is the field's name or
\* one of its aliases -- and nothing when there is no such column.
C37_FieldFromMatchingColumn ==
  (~IsNone(parse) /\ ~IsNone(Val(parse).out))
    => LET headers == SheetHeaders(Val(parse).cells)
           values == Val(parse).values
           out == Val(Val(parse).out)
       IN /\ out.raised = ""
          /\ \A r \in 1..Len(out.rows), f \in ColumnFields :
               IF Matching(headers, f) = {}
               THEN IsNone(out.rows[r][f])
               ELSE \E i \in Matching(headers, f) :
                      out.rows[r][f] = Converted(f, values[i])

\* A sheet with two blank header cells before the study_uid column was
\* parsed, and the lookup of study_uid raised IndexError.
C37_BlankHeadersRaise ==
  /\ ~IsNone(parse)
  /\ Val(parse).cells = <<None, None, Str("study_uid")>>
  /\ Val(parse).values = <<None, None, Str("yes")>>
  /\ ~IsNone(Val(parse).out)
  /\ Val(Val(parse).out).raised = "IndexError"

====
